---- MODULE Spec2Model ----
(***************************************************************************)
(* A model of the cel-rs stack runtime: RawStack (padding-aware byte       *)
(* stack), RawSegment (dispatchers over a closure store) and DynSegment    *)
(* (the run-time checked builder with its shadow stack).                   *)
(*                                                                         *)
(* Values are unsigned integers stored little-endian, one buffer cell per  *)
(* byte.  A call runs under one of two build profiles: "debug" (integer    *)
(* overflow checks and debug assertions on) and "release" (wrapping        *)
(* arithmetic).  A byte allocation may be placed at any address; the model *)
(* draws it from one aligned and one odd address.                          *)
(***************************************************************************)
EXTENDS Integers, Sequences, FiniteSets, TLC

\* ------------------------------------------------------------------ bounds
MaxOps == 3

MaxArgs == 1

MaxFallible == 1

MaxPush == 3

\* ------------------------------------------------------------------- types
\* The types op results and arguments are drawn from: two unsigned integers
\* of different size and alignment.  A call may also ask for the unit type.
Types == {"u8", "u16"}

CallTypes == Types \cup {"unit"}

size_of(T) ==
    CASE T = "unit" -> 0 [] T = "bool" -> 1 [] T = "u8" -> 1 [] T = "u16" -> 2 [] T = "u32" -> 4

align_of(T) ==
    CASE T = "unit" -> 1 [] T = "bool" -> 1 [] T = "u8" -> 1 [] T = "u16" -> 2 [] T = "u32" -> 4

Range(T) == 256 ^ size_of(T)

\* A value reduced to the width of T.  The values of the model stay far
\* below 2^31, so a 32-bit value is never reduced.
Wrap(T, v) == IF size_of(T) >= 4 THEN v ELSE v % Range(T)

Encode(T, v) == [i \in 1..size_of(T) |-> (v \div (256 ^ (i - 1))) % 256]

RECURSIVE Decode(_)
Decode(bytes) ==
    IF Len(bytes) = 0 THEN 0
    ELSE bytes[1] + 256 * Decode(SubSeq(bytes, 2, Len(bytes)))

Max(a, b) == IF a >= b THEN a ELSE b

Reverse(s) == [i \in 1..Len(s) |-> s[Len(s) + 1 - i]]

\* ------------------------------------------------------------------ memory
\* (index + align - 1) & !(align - 1) for a power-of-two align: the sum
\* with its low bits cleared.
align_index(align, index) == (index + align - 1) - ((index + align - 1) % align)

\* The same expression on a usize of UsizeBits bits, bit by bit.
UsizeBits == 8

\* a & b on the low n bits
RECURSIVE BitAnd(_, _, _)
BitAnd(a, b, n) ==
    IF n = 0 THEN 0
    ELSE (a % 2) * (b % 2) + 2 * BitAnd(a \div 2, b \div 2, n - 1)

\* !a
BitNot(a) == 2 ^ UsizeBits - 1 - a

\* align_index with the sum taken as index + align.
align_index_past(align, index) ==
    BitAnd((index + align) % 2 ^ UsizeBits, BitNot(align - 1), UsizeBits)

align_index_bits(align, index) ==
    BitAnd((index + align - 1) % 2 ^ UsizeBits, BitNot(align - 1), UsizeBits)

\* ------------------------------------------------------------------ RawVec
\* A RawVec is the Vec's length, capacity and address (1, the dangling
\* pointer of Vec::new, until it allocates), the offset of the aligned base
\* inside it, and the bytes stored from that base on.
Fail(mode) == IF mode = "debug" THEN "panic" ELSE "ub"

\* Addresses the heap hands out for a byte allocation: one aligned for
\* every type of the model and one odd.
HeapPtrs == {16, 17}

with_base_alignment(base_alignment) ==
    [data |-> <<>>, vlen |-> 0, vcap |-> 0, start_offset |-> 0,
     base_alignment |-> base_alignment, ptr |-> 1]

\* align_index debug-asserts a power-of-two alignment; without the
\* assertion a zero alignment makes start_offset wrap to -ptr and set_len
\* leaves the allocation.
with_base_alignment_and_capacity(base_alignment, cap, ptr, mode) ==
    IF base_alignment = 0
    THEN [st |-> Fail(mode), vec |-> with_base_alignment(base_alignment)]
    ELSE LET start_offset == align_index(base_alignment, ptr) - ptr IN
         [st |-> "ok",
          vec |-> [data |-> <<>>, vlen |-> start_offset,
                   vcap |-> cap + base_alignment - 1,
                   start_offset |-> start_offset,
                   base_alignment |-> base_alignment, ptr |-> ptr]]

capacity(v) == v.vcap - v.start_offset

\* RawVec::as_mut_ptr / as_ptr: the address of the aligned base.
as_mut_ptr(v) == v.ptr + v.start_offset

len(v) == v.vlen - v.start_offset

\* RawVec::reserve: the replacement buffer receives the bytes but keeps the
\* length with_base_alignment_and_capacity gave it.
reserve(v, addition, ptr, mode) ==
    LET cap == len(v) + addition IN
    IF cap > capacity(v)
    THEN LET new_buffer == with_base_alignment_and_capacity(
                 v.base_alignment, Max(cap, capacity(v) * 2), ptr, mode)
         IN  IF new_buffer.st # "ok"
             THEN [st |-> new_buffer.st, vec |-> v]
             ELSE [st |-> "ok",
                   vec |-> [new_buffer.vec EXCEPT !.data = SubSeq(v.data, 1, len(v))]]
    ELSE [st |-> "ok", vec |-> v]

\* RawVec::set_len; the assert is active in every profile.
set_len(v, n) ==
    IF n <= capacity(v)
    THEN [st |-> "ok", vec |-> [v EXCEPT !.vlen = v.start_offset + n]]
    ELSE [st |-> "panic", vec |-> v]

\* RawVec::truncate.  n may be the wrapped result of a usize subtraction,
\* given here as the negative number it stands for: start_offset + n then
\* either wraps once more to a length Vec::truncate ignores, or lands
\* below start_offset.
truncate(v, n) ==
    LET t == v.start_offset + n IN
    IF t < 0 \/ t >= v.vlen THEN v
    ELSE [v EXCEPT !.vlen = t,
                   !.data = SubSeq(v.data, 1, Max(0, t - v.start_offset))]

\* ---------------------------------------------------------------- RawStack
Padding(n) == [i \in 1..n |-> IF i = 1 THEN 1 ELSE 0]

\* push writing the value at the old length, ahead of the padding.
push_value_first(s, T, value, ptr, mode) ==
    LET l == len(s)
        aligned_index == align_index(align_of(T), l)
        new_len == aligned_index + size_of(T)
        r == reserve(s, new_len - l, ptr, mode)
        sl == set_len(r.vec, new_len)
    IN  IF r.st # "ok" THEN [st |-> r.st, stack |-> s, padded |-> FALSE, addr |-> 0]
        ELSE IF sl.st # "ok"
        THEN [st |-> sl.st, stack |-> s, padded |-> FALSE, addr |-> 0]
        ELSE [st |-> "ok",
              addr |-> as_mut_ptr(sl.vec) + aligned_index,
              stack |-> [sl.vec EXCEPT
                  !.data = SubSeq(s.data, 1, l) \o Encode(T, value)
                               \o Padding(aligned_index - l)],
              padded |-> aligned_index - l > 0]

\* push filling the whole padding with zeros.
push_zero_padding(s, T, value, ptr, mode) ==
    LET l == len(s)
        aligned_index == align_index(align_of(T), l)
        new_len == aligned_index + size_of(T)
        r == reserve(s, new_len - l, ptr, mode)
        sl == set_len(r.vec, new_len)
    IN  IF r.st # "ok" THEN [st |-> r.st, stack |-> s, padded |-> FALSE, addr |-> 0]
        ELSE IF sl.st # "ok"
        THEN [st |-> sl.st, stack |-> s, padded |-> FALSE, addr |-> 0]
        ELSE [st |-> "ok",
              addr |-> as_mut_ptr(sl.vec) + aligned_index,
              stack |-> [sl.vec EXCEPT
                  !.data = SubSeq(s.data, 1, l) \o [i \in 1..(aligned_index - l) |-> 0]
                               \o Encode(T, value)],
              padded |-> aligned_index - l > 0]

\* RawStack::push: returns the new stack, whether padding was inserted, and
\* the address the value was written to.
push(s, T, value, ptr, mode) ==
    LET l == len(s)
        aligned_index == align_index(align_of(T), l)
        new_len == aligned_index + size_of(T)
        r == reserve(s, new_len - l, ptr, mode)
        sl == set_len(r.vec, new_len)
    IN  IF r.st # "ok" THEN [st |-> r.st, stack |-> s, padded |-> FALSE, addr |-> 0]
        ELSE IF sl.st # "ok"
        THEN [st |-> sl.st, stack |-> s, padded |-> FALSE, addr |-> 0]
        ELSE [st |-> "ok",
              addr |-> as_mut_ptr(sl.vec) + aligned_index,
              stack |-> [sl.vec EXCEPT
                  !.data = SubSeq(s.data, 1, l) \o Padding(aligned_index - l)
                               \o Encode(T, value)],
              padded |-> aligned_index - l > 0]

RECURSIVE TrailingZeros(_)
TrailingZeros(bytes) ==
    IF Len(bytes) = 0 \/ bytes[Len(bytes)] # 0 THEN 0
    ELSE 1 + TrailingZeros(SubSeq(bytes, 1, Len(bytes) - 1))

\* pop counting the zero bytes of the padding but not its leading 1.
pop_keeps_marker(s, T, padding, mode) ==
    IF len(s) < size_of(T)
    THEN [st |-> Fail(mode), val |-> 0, stack |-> s]
    ELSE LET p == len(s) - size_of(T)
             result == Decode(SubSeq(s.data, p + 1, len(s)))
             padding_count ==
                 IF padding THEN TrailingZeros(SubSeq(s.data, 1, p)) ELSE 0
         IN  [st |-> "ok", val |-> result, stack |-> truncate(s, p - padding_count)]

\* RawStack::pop.  len - size_of::<T>() and p - padding_count are usize
\* subtractions: a negative result panics under overflow checks; without
\* them the first wraps into a read outside the buffer and the second
\* reaches truncate wrapped.
pop(s, T, padding, mode) ==
    IF len(s) < size_of(T)
    THEN [st |-> Fail(mode), val |-> 0, stack |-> s]
    ELSE LET p == len(s) - size_of(T)
             result == Decode(SubSeq(s.data, p + 1, len(s)))
             padding_count ==
                 IF padding THEN TrailingZeros(SubSeq(s.data, 1, p)) + 1 ELSE 0
         IN  IF padding_count > p /\ mode = "debug"
             THEN [st |-> "panic", val |-> result, stack |-> s]
             ELSE [st |-> "ok", val |-> result,
                   stack |-> truncate(s, p - padding_count)]

\* Run-time state of one call: st is "run" while dispatchers execute, then
\* "ok", "err" (a closure returned Err), "panic" or "ub".  invoked lists the
\* user closures called with their arguments, dropped the values destroyed
\* by RawStack::drop, both in order; aligned tells that every value pushed so
\* far was written to a multiple of its alignment, and flags lists what
\* RawStack::push returned, push by push.
Exec(stack) ==
    [st |-> "run", err |-> 0, stack |-> stack, p |-> 1,
     invoked |-> <<>>, dropped |-> <<>>, val |-> 0, aligned |-> TRUE,
     flags |-> <<>>]

\* RawStack::drop: pop and destroy the value.
drop(x, T, padding, mode) ==
    LET r == pop(x.stack, T, padding, mode) IN
    IF r.st # "ok" THEN [x EXCEPT !.st = r.st]
    ELSE [x EXCEPT !.stack = r.stack,
                   !.dropped = Append(x.dropped, [ty |-> T, val |-> r.val])]

\* -------------------------------------------------------------- RawSegment
\* RawSegment::new
RawSegment_new == [ops |-> <<>>, storage |-> <<>>, base_alignment |-> 0]

\* The closures programs are built from.  A closure is a value of its own
\* type F; fn names its code and c, msg, unwind are its captures.
Closure(fn, c, msg, unwind) == [fn |-> fn, c |-> c, msg |-> msg, unwind |-> unwind]

\* The result of calling a user closure on args (in parameter order).
Apply(f, args, R) ==
    CASE f.fn = "const" -> Wrap(R, f.c)
      [] f.fn = "inc"   -> Wrap(R, args[1] + 1)
      [] f.fn = "lin2"  -> Wrap(R, args[1] + 2 * args[2])
      [] f.fn = "lin3"  -> Wrap(R, args[1] + 2 * args[2] + 4 * args[3])
      [] f.fn = "and"   -> IF args[1] = 1 /\ args[2] = 1 THEN 1 ELSE 0

Dispatcher(kind, T, R, PADDING) == [kind |-> kind, T |-> T, R |-> R, PADDING |-> PADDING]

\* RawSegment::push_storage, with the cursor counting stored closures.
push_storage(seg, value) == [seg EXCEPT !.storage = Append(seg.storage, value)]

\* RawSegment::raw0
raw0(seg, R, op) ==
    [push_storage(seg, op) EXCEPT
        !.ops = Append(seg.ops, Dispatcher("raw0", <<>>, R, <<>>)),
        !.base_alignment = Max(seg.base_alignment, align_of(R))]

\* RawSegment::push_op0
push_op0(seg, R, op) ==
    [push_storage(seg, op) EXCEPT
        !.ops = Append(seg.ops, Dispatcher("op0", <<>>, R, <<>>)),
        !.base_alignment = Max(seg.base_alignment, align_of(R))]

\* push_op1 taking the alignment of its result as the base alignment.
push_op1_overwrites(seg, T, R, op, padding0) ==
    [push_storage(seg, op) EXCEPT
        !.ops = Append(seg.ops, Dispatcher("op1", <<T>>, R, <<padding0>>)),
        !.base_alignment = align_of(R)]

\* RawSegment::push_op1
push_op1(seg, T, R, op, padding0) ==
    [push_storage(seg, op) EXCEPT
        !.ops = Append(seg.ops, Dispatcher("op1", <<T>>, R, <<padding0>>)),
        !.base_alignment = Max(seg.base_alignment, align_of(R))]

\* RawSegment::push_op2
push_op2(seg, T, U, R, op, padding0, padding1) ==
    [push_storage(seg, op) EXCEPT
        !.ops = Append(seg.ops, Dispatcher("op2", <<T, U>>, R, <<padding0, padding1>>)),
        !.base_alignment = Max(seg.base_alignment, align_of(R))]

\* RawSegment::push_op3
push_op3(seg, T, U, V, R, op, padding0, padding1, padding2) ==
    [push_storage(seg, op) EXCEPT
        !.ops = Append(seg.ops,
            Dispatcher("op3", <<T, U, V>>, R, <<padding0, padding1, padding2>>)),
        !.base_alignment = Max(seg.base_alignment, align_of(R))]

\* RawSegment::raw1
raw1(seg, T, R, op, padding0) ==
    [push_storage(seg, op) EXCEPT
        !.ops = Append(seg.ops, Dispatcher("op1r", <<T>>, R, <<padding0>>)),
        !.base_alignment = Max(seg.base_alignment, align_of(R))]

\* RawSegment::raw0_: stores a closure that works on the live stack itself
\* and appends the dispatcher calling it; no result type is recorded.
raw0_(seg, op) ==
    [push_storage(seg, op) EXCEPT
        !.ops = Append(seg.ops, Dispatcher("raw0_", <<>>, "unit", <<>>))]

\* RawSegment::base_alignment
base_alignment(seg) == seg.base_alignment

\* RawSegment::update_base_alignment
update_base_alignment(seg, alignment) ==
    [seg EXCEPT !.base_alignment = Max(seg.base_alignment, alignment)]

\* Ok(r) after stack.push(result), r being what the push returned: the
\* cursor moves past the closure.
Pushed(x, R, r) ==
    IF r.st # "ok" THEN [x EXCEPT !.st = r.st]
    ELSE [x EXCEPT !.stack = r.stack, !.p = x.p + 1,
                   !.aligned = x.aligned /\ r.addr % align_of(R) = 0,
                   !.flags = Append(x.flags, r.padded)]

\* stack.push(result); Ok(r)
PushResult(x, R, result, ptr, mode) ==
    Pushed(x, R, push(x.stack, R, result, ptr, mode))

Invoke(x, i, args) == [x EXCEPT !.invoked = Append(x.invoked, [op |-> i, args |-> args])]

\* The unwinding loop of the closure DynSegment::op0r stores:
\* for dropper in unwind.iter().rev() { dropper(stack) }
RECURSIVE Unwind(_, _, _)
Unwind(x, unwind, mode) ==
    IF x.st # "run" \/ Len(unwind) = 0 THEN x
    ELSE LET dropper == unwind[Len(unwind)] IN
         Unwind(drop(x, dropper.ty, dropper.padding, mode),
                SubSeq(unwind, 1, Len(unwind) - 1), mode)

\* The dispatcher RawSegment::raw0 stores, running the closure of
\* DynSegment::op0r: on Err the saved droppers run, then the error returns.
dispatch_raw0(d, f, i, x, ptr, mode) ==
    LET called == Invoke(x, i, <<>>) IN
    IF f.fn = "err"
    THEN LET u == Unwind(called, f.unwind, mode) IN
         IF u.st # "run" THEN u ELSE [u EXCEPT !.st = "err", !.err = f.msg]
    ELSE PushResult(called, d.R, Wrap(d.R, f.c), ptr, mode)

\* The dispatcher RawSegment::push_op0 stores.
dispatch_op0(d, f, i, x, ptr, mode) ==
    PushResult(Invoke(x, i, <<>>), d.R, Apply(f, <<>>, d.R), ptr, mode)

\* The dispatcher RawSegment::push_op1_ stores.
dispatch_op1(d, f, i, x, ptr, mode) ==
    LET x0 == pop(x.stack, d.T[1], d.PADDING[1], mode) IN
    IF x0.st # "ok" THEN [x EXCEPT !.st = x0.st]
    ELSE PushResult(Invoke([x EXCEPT !.stack = x0.stack], i, <<x0.val>>),
                    d.R, Apply(f, <<x0.val>>, d.R), ptr, mode)

\* The dispatcher RawSegment::push_op1r_ stores, running the closure of
\* Segment::op1r: the operand is popped and moved into the closure; on Err
\* the closure has run its droppers on the stack and the error returns.
dispatch_op1r(d, f, i, x, ptr, mode) ==
    LET x0 == pop(x.stack, d.T[1], d.PADDING[1], mode) IN
    IF x0.st # "ok" THEN [x EXCEPT !.st = x0.st]
    ELSE LET called == Invoke([x EXCEPT !.stack = x0.stack], i, <<x0.val>>) IN
         IF f.fn = "err"
         THEN LET u == Unwind(called, f.unwind, mode) IN
              IF u.st # "run" THEN u ELSE [u EXCEPT !.st = "err", !.err = f.msg]
         ELSE PushResult(called, d.R, Apply(f, <<x0.val>>, d.R), ptr, mode)

\* The dispatcher RawSegment::push_op2_ stores.
dispatch_op2(d, f, i, x, ptr, mode) ==
    LET y0 == pop(x.stack, d.T[2], d.PADDING[2], mode) IN
    IF y0.st # "ok" THEN [x EXCEPT !.st = y0.st]
    ELSE LET x0 == pop(y0.stack, d.T[1], d.PADDING[1], mode) IN
         IF x0.st # "ok" THEN [x EXCEPT !.st = x0.st]
         ELSE PushResult(Invoke([x EXCEPT !.stack = x0.stack], i, <<x0.val, y0.val>>),
                         d.R, Apply(f, <<x0.val, y0.val>>, d.R), ptr, mode)

\* The dispatcher RawSegment::push_op3_ stores.
dispatch_op3(d, f, i, x, ptr, mode) ==
    LET z0 == pop(x.stack, d.T[3], d.PADDING[3], mode) IN
    IF z0.st # "ok" THEN [x EXCEPT !.st = z0.st]
    ELSE LET y0 == pop(z0.stack, d.T[2], d.PADDING[2], mode) IN
         IF y0.st # "ok" THEN [x EXCEPT !.st = y0.st]
         ELSE LET x0 == pop(y0.stack, d.T[1], d.PADDING[1], mode) IN
              IF x0.st # "ok" THEN [x EXCEPT !.st = x0.st]
              ELSE PushResult(
                       Invoke([x EXCEPT !.stack = x0.stack], i,
                              <<x0.val, y0.val, z0.val>>),
                       d.R, Apply(f, <<x0.val, y0.val, z0.val>>, d.R), ptr, mode)

\* Closures of a segment run by call0_stack are numbered from FragmentTag
\* times the number of the fragment (1 for the first, 2 for the second).
FragmentTag == 100

\* The dispatchers that call a closure on popped operands.
DispatchOp(d, f, i, x, ptr, mode) ==
    CASE d.kind = "raw0" -> dispatch_raw0(d, f, i, x, ptr, mode)
      [] d.kind = "op0"  -> dispatch_op0(d, f, i, x, ptr, mode)
      [] d.kind = "op1"  -> dispatch_op1(d, f, i, x, ptr, mode)
      [] d.kind = "op1r" -> dispatch_op1r(d, f, i, x, ptr, mode)
      [] d.kind = "op2"  -> dispatch_op2(d, f, i, x, ptr, mode)
      [] d.kind = "op3"  -> dispatch_op3(d, f, i, x, ptr, mode)

\* let conditional = unsafe { stack.pop(p0) }; the value is kept in val.
PopConditional(f, i, x, mode) ==
    LET conditional == pop(x.stack, "bool", f.c.p0, mode) IN
    IF conditional.st # "ok" THEN [x EXCEPT !.st = conditional.st]
    ELSE [Invoke([x EXCEPT !.stack = conditional.stack], i, <<conditional.val>>)
             EXCEPT !.val = conditional.val]

\* if conditional { raw_segment_0 } else { raw_segment_1 }
Branch(f, conditional) ==
    IF conditional # 0 THEN f.c.raw_segment_0 ELSE f.c.raw_segment_1

BranchTag(conditional) == IF conditional # 0 THEN FragmentTag ELSE 2 * FragmentTag

\* RawSegment::call0_stack: the loop of call0 on a stack the caller owns,
\* with a storage cursor of its own; the result stays on the stack.  The
\* segments it runs here are fragments, which hold no join of their own.
RECURSIVE call0_stack(_, _, _, _, _, _)
call0_stack(seg, i, tag, x, ptr, mode) ==
    IF x.st # "run" \/ i > Len(seg.ops) THEN x
    ELSE call0_stack(seg, i + 1, tag,
                     DispatchOp(seg.ops[i], seg.storage[x.p], tag + i, x, ptr, mode),
                     ptr, mode)

\* if conditional { raw_segment_0.call0_stack(stack)? } else
\* { raw_segment_1.call0_stack(stack)? }
RunBranch(f, c, ptr, mode) ==
    call0_stack(Branch(f, c.val), 1, BranchTag(c.val), [c EXCEPT !.p = 1], ptr, mode)

\* Ok(r): the cursor of the caller moves past the closure.
Resume(ran, p) == IF ran.st # "run" THEN ran ELSE [ran EXCEPT !.p = p, !.val = 0]

\* The dispatcher RawSegment::raw0_ stores, running the closure of
\* DynSegment::join2: pop the conditional, then run one of the two captured
\* raw segments on the same stack.
dispatch_raw0_(d, f, i, x, ptr, mode) ==
    Resume(RunBranch(f, PopConditional(f, i, x, mode), ptr, mode), x.p + 1)

Dispatch(d, f, i, x, ptr, mode) ==
    IF d.kind = "raw0_" THEN dispatch_raw0_(d, f, i, x, ptr, mode)
    ELSE DispatchOp(d, f, i, x, ptr, mode)

\* for op in &self.ops { p = op(&self.storage, p, &mut stack)?; }
RECURSIVE RunOps(_, _, _, _, _)
RunOps(seg, i, x, ptr, mode) ==
    IF x.st # "run" \/ i > Len(seg.ops) THEN x
    ELSE RunOps(seg, i + 1,
                Dispatch(seg.ops[i], seg.storage[x.p], i, x, ptr, mode), ptr, mode)

\* Ok(unsafe { stack.pop(false) })
PopResult(x, T, mode) ==
    IF x.st # "run" THEN x
    ELSE LET r == pop(x.stack, T, FALSE, mode) IN
         IF r.st # "ok" THEN [x EXCEPT !.st = r.st]
         ELSE [x EXCEPT !.st = "ok", !.val = r.val, !.stack = r.stack]

\* RawSegment::call0
RawSegment_call0(seg, T, ptr, mode) ==
    PopResult(RunOps(seg, 1, Exec(with_base_alignment(seg.base_alignment)), ptr, mode),
              T, mode)

\* RawSegment::call1
RawSegment_call1(seg, A, arg, T, ptr, mode) ==
    LET stack == with_base_alignment(seg.base_alignment)
        a == push(stack, A, arg, ptr, mode)
    IN  IF a.st # "ok" THEN [Exec(stack) EXCEPT !.st = a.st]
        ELSE PopResult(
                 RunOps(seg, 1,
                        [Exec(a.stack) EXCEPT !.aligned = a.addr % align_of(A) = 0,
                                              !.flags = <<a.padded>>],
                        ptr, mode),
                 T, mode)

\* RawSegment::call2
RawSegment_call2(seg, A, B, arg, T, ptr, mode) ==
    LET stack == with_base_alignment(seg.base_alignment)
        a == push(stack, A, arg[1], ptr, mode)
    IN  IF a.st # "ok" THEN [Exec(stack) EXCEPT !.st = a.st]
        ELSE LET b == push(a.stack, B, arg[2], ptr, mode) IN
             IF b.st # "ok" THEN [Exec(a.stack) EXCEPT !.st = b.st]
             ELSE PopResult(
                      RunOps(seg, 1,
                             [Exec(b.stack) EXCEPT
                                 !.aligned = /\ a.addr % align_of(A) = 0
                                             /\ b.addr % align_of(B) = 0,
                                 !.flags = <<a.padded, b.padded>>],
                             ptr, mode),
                      T, mode)

\* -------------------------------------------------------------- CStackList
\* Layout of the repr(C) list CStackList<H, T>(T, H) holding the types of L,
\* L[1] innermost (stored first) and L[Len(L)] the head.
Front(L) == SubSeq(L, 1, Len(L) - 1)

RECURSIVE ListAlign(_)
ListAlign(L) ==
    IF Len(L) = 0 THEN 1 ELSE Max(ListAlign(Front(L)), align_of(L[Len(L)]))

RECURSIVE ListSize(_)
\* offset_of!(Self, 1)
HeadOffset(L) == align_index(align_of(L[Len(L)]), ListSize(Front(L)))

\* size_of::<CStackList<..>>(): the end of the head rounded up to the
\* alignment of the struct.
ListSize(L) ==
    IF Len(L) = 0 THEN 0
    ELSE align_index(ListAlign(L), HeadOffset(L) + size_of(L[Len(L)]))

\* CStackListHeadLimit::HEAD_LIMIT
HEAD_LIMIT(L) == IF Len(L) = 0 THEN 0 ELSE HeadOffset(L) + size_of(L[Len(L)])

\* CStackListHeadPadded::HEAD_PADDED
HEAD_PADDED(L) == HeadOffset(L) # HEAD_LIMIT(Front(L))

\* List::HEAD_OFFSET, 0 for the empty list
HEAD_OFFSET(L) == IF Len(L) = 0 THEN 0 ELSE HeadOffset(L)

\* List::HEAD_PADDING of a CStackList: the bytes between the end of the
\* head of the tail and the head; the head of the empty list has no bytes.
HEAD_PADDING(L) ==
    IF Len(L) = 0 THEN 0
    ELSE HEAD_OFFSET(L) -
             (HEAD_OFFSET(Front(L)) +
              (IF Len(L) = 1 THEN 0 ELSE size_of(L[Len(L) - 1])))

\* -------------------------------------------------------------- DynSegment
StackInfo(T, padded) ==
    [stack_id |-> T, stack_unwind |-> [ty |-> T, padding |-> padded], padded |-> padded]

\* ToTypeIdList::to_stack_info_list
to_stack_info_list(L) == [i \in 1..Len(L) |-> StackInfo(L[i], HEAD_PADDED(SubSeq(L, 1, i)))]

\* DynSegment::new::<Args>(): ReverseList<Args::Output> stores the first
\* argument innermost.
DynSegment_new(Args) ==
    LET infos == to_stack_info_list(Args) IN
    [segment |-> RawSegment_new,
     argument_ids |-> [i \in 1..Len(infos) |-> infos[i].stack_id],
     stack_ids |-> infos,
     stack_index |-> ListSize(Args)]

\* pop_types without the comparison of the TypeIds: only the depth is checked.
pop_types_unchecked(d, L) ==
    IF ~(Len(L) <= Len(d.stack_ids)) THEN [ok |-> FALSE, dyn |-> d]
    ELSE [ok |-> TRUE,
          dyn |-> [d EXCEPT !.stack_ids =
                       SubSeq(d.stack_ids, 1, Len(d.stack_ids) - Len(L))]]

\* DynSegment::pop_types; L lists the expected types in argument order.
pop_types(d, L) ==
    IF ~(Len(L) <= Len(d.stack_ids)) THEN [ok |-> FALSE, dyn |-> d]
    ELSE LET start == Len(d.stack_ids) - Len(L) IN
         IF ~(\A i \in 1..Len(L) : L[i] = d.stack_ids[start + i].stack_id)
         THEN [ok |-> FALSE, dyn |-> d]
         ELSE [ok |-> TRUE, dyn |-> [d EXCEPT !.stack_ids = SubSeq(d.stack_ids, 1, start)]]

\* DynSegment::push_type
push_type(d, T) ==
    LET aligned_index == align_index(align_of(T), d.stack_index)
        padded == aligned_index # d.stack_index
    IN  [d EXCEPT !.stack_ids = Append(d.stack_ids, StackInfo(T, padded)),
                  !.stack_index = aligned_index + size_of(T)]

\* DynSegment::get_last_n_padded
get_last_n_padded(d, N) ==
    LET start == Max(0, Len(d.stack_ids) - N) IN
    [i \in 1..N |-> IF start + i <= Len(d.stack_ids)
                    THEN d.stack_ids[start + i].padded ELSE FALSE]

\* DynSegment::op0
op0(d, R, op) == push_type([d EXCEPT !.segment = push_op0(d.segment, R, op)], R)

\* DynSegment::op0r: the stored closure captures op and the droppers of the
\* current shadow stack.
op0r(d, R, op) ==
    LET unwind == [i \in 1..Len(d.stack_ids) |-> d.stack_ids[i].stack_unwind] IN
    push_type([d EXCEPT !.segment =
                   raw0(d.segment, R, Closure(op.fn, op.c, op.msg, unwind))], R)

\* DynSegment::op1
op1(d, T, R, op) ==
    LET p == get_last_n_padded(d, 1)
        t == pop_types(d, <<T>>)
    IN  IF ~t.ok THEN t
        ELSE [ok |-> TRUE,
              dyn |-> push_type([t.dyn EXCEPT !.segment =
                          push_op1(t.dyn.segment, T, R, op, p[1])], R)]

\* op2 storing the closure before the types are verified.
op2_stores_first(d, T, U, R, op) ==
    LET p == get_last_n_padded(d, 2)
        stored == [d EXCEPT !.segment = push_op2(d.segment, T, U, R, op, p[1], p[2])]
        t == pop_types(stored, <<T, U>>)
    IN  IF ~t.ok THEN t ELSE [ok |-> TRUE, dyn |-> push_type(t.dyn, R)]

\* DynSegment::op2
op2(d, T, U, R, op) ==
    LET p == get_last_n_padded(d, 2)
        t == pop_types(d, <<T, U>>)
    IN  IF ~t.ok THEN t
        ELSE [ok |-> TRUE,
              dyn |-> push_type([t.dyn EXCEPT !.segment =
                          push_op2(t.dyn.segment, T, U, R, op, p[1], p[2])], R)]

\* DynSegment::op3
op3(d, T, U, V, R, op) ==
    LET p == get_last_n_padded(d, 3)
        t == pop_types(d, <<T, U, V>>)
    IN  IF ~t.ok THEN t
        ELSE [ok |-> TRUE,
              dyn |-> push_type([t.dyn EXCEPT !.segment =
                          push_op3(t.dyn.segment, T, U, V, R, op, p[1], p[2], p[3])], R)]

\* DynSegment::new_fragment
new_fragment(d) ==
    [segment |-> RawSegment_new,
     argument_ids |-> <<>>,
     stack_ids |-> <<>>,
     stack_index |-> d.stack_index]

\* The closure DynSegment::join2 stores: it captures the padding of the
\* conditional and the raw segments of the two fragments.
JoinClosure(p0, raw_segment_0, raw_segment_1) ==
    Closure("join2",
            [p0 |-> p0, raw_segment_0 |-> raw_segment_0, raw_segment_1 |-> raw_segment_1],
            0, <<>>)

\* The tail of DynSegment::join2 once every check has passed.
Joined(d, p0, fragment_0, fragment_1) ==
    [d EXCEPT
        !.stack_ids = Append(d.stack_ids, fragment_0.stack_ids[1]),
        !.segment =
            raw0_(update_base_alignment(
                      d.segment,
                      Max(base_alignment(fragment_0.segment),
                          base_alignment(fragment_1.segment))),
                  JoinClosure(p0, fragment_0.segment, fragment_1.segment))]

\* join2 without the comparison of the two result types.
join2_unmatched(d, fragment_0, fragment_1) ==
    LET p == get_last_n_padded(d, 1)
        t == pop_types(d, <<"bool">>)
    IN  IF ~t.ok THEN t
        ELSE IF Len(fragment_0.argument_ids) # 0 THEN [ok |-> FALSE, dyn |-> t.dyn]
        ELSE IF Len(fragment_1.argument_ids) # 0 THEN [ok |-> FALSE, dyn |-> t.dyn]
        ELSE IF Len(fragment_0.stack_ids) # 1 THEN [ok |-> FALSE, dyn |-> t.dyn]
        ELSE IF Len(fragment_1.stack_ids) # 1 THEN [ok |-> FALSE, dyn |-> t.dyn]
        ELSE [ok |-> TRUE, dyn |-> Joined(t.dyn, p[1], fragment_0, fragment_1)]

\* DynSegment::join2
join2(d, fragment_0, fragment_1) ==
    LET p == get_last_n_padded(d, 1)
        t == pop_types(d, <<"bool">>)
    IN  IF ~t.ok THEN t
        ELSE IF Len(fragment_0.argument_ids) # 0 THEN [ok |-> FALSE, dyn |-> t.dyn]
        ELSE IF Len(fragment_1.argument_ids) # 0 THEN [ok |-> FALSE, dyn |-> t.dyn]
        ELSE IF Len(fragment_0.stack_ids) # 1 THEN [ok |-> FALSE, dyn |-> t.dyn]
        ELSE IF Len(fragment_1.stack_ids) # 1 THEN [ok |-> FALSE, dyn |-> t.dyn]
        ELSE IF fragment_0.stack_ids[1].stack_id # fragment_1.stack_ids[1].stack_id
        THEN [ok |-> FALSE, dyn |-> t.dyn]
        ELSE [ok |-> TRUE, dyn |-> Joined(t.dyn, p[1], fragment_0, fragment_1)]

\* What a call leaves behind when the prelude rejects it.
NotRun == [Exec(with_base_alignment(0)) EXCEPT !.st = "prelude"]

\* call0 without the check for values left on the shadow stack.
call0_ignores_rest(d, R, ptr, mode) ==
    IF Len(d.argument_ids) # 0 THEN [dyn |-> d, res |-> NotRun]
    ELSE LET t == pop_types(d, <<R>>) IN
         IF ~t.ok THEN [dyn |-> d, res |-> NotRun]
         ELSE [dyn |-> t.dyn, res |-> RawSegment_call0(t.dyn.segment, R, ptr, mode)]

\* DynSegment::call0
call0(d, R, ptr, mode) ==
    IF Len(d.argument_ids) # 0 THEN [dyn |-> d, res |-> NotRun]
    ELSE LET t == pop_types(d, <<R>>) IN
         IF ~t.ok THEN [dyn |-> d, res |-> NotRun]
         ELSE IF Len(t.dyn.stack_ids) # 0 THEN [dyn |-> t.dyn, res |-> NotRun]
         ELSE [dyn |-> t.dyn, res |-> RawSegment_call0(t.dyn.segment, R, ptr, mode)]

\* DynSegment::call1
call1(d, A, arg, R, ptr, mode) ==
    IF Len(d.argument_ids) # 1 THEN [dyn |-> d, res |-> NotRun]
    ELSE IF d.argument_ids[1] # A THEN [dyn |-> d, res |-> NotRun]
    ELSE LET t == pop_types(d, <<R>>) IN
         IF ~t.ok THEN [dyn |-> d, res |-> NotRun]
         ELSE IF Len(t.dyn.stack_ids) # 0 THEN [dyn |-> t.dyn, res |-> NotRun]
         ELSE [dyn |-> t.dyn,
               res |-> RawSegment_call1(t.dyn.segment, A, arg, R, ptr, mode)]

\* ----------------------------------------------------------------- Segment
\* A type list is the sequence of its element types with the head last, as
\* CStackList stores them; a tuple lists its types in the order written.

\* IntoList::Output: the first type of the tuple becomes the head.
IntoList_Output(Args) == [i \in 1..Len(Args) |-> Args[Len(Args) + 1 - i]]

\* List::Reverse
List_Reverse(L) == [i \in 1..Len(L) |-> L[Len(L) + 1 - i]]

\* TypeIdIterator::<L>::new(): the TypeId of the head, then of the head of
\* the tail, and so on.
TypeIdIterator(L) == [i \in 1..Len(L) |-> L[Len(L) + 1 - i]]

\* <Segment<Args, Stack> as TryFrom<DynSegment>>::try_from
try_from(Args, Stack, value) ==
    LET ArgList == List_Reverse(IntoList_Output(Args)) IN
    IF ~(/\ Len(ArgList) = Len(value.argument_ids)
         /\ TypeIdIterator(ArgList) = value.argument_ids)
    THEN [ok |-> FALSE, segment |-> RawSegment_new]
    ELSE IF ~(/\ Len(Stack) = Len(value.stack_ids)
              /\ TypeIdIterator(Stack) =
                     [i \in 1..Len(value.stack_ids) |-> value.stack_ids[i].stack_id])
    THEN [ok |-> FALSE, segment |-> RawSegment_new]
    ELSE [ok |-> TRUE, segment |-> value.segment]

\* The result type of Callable::call: the head of Stack, or the head of the
\* empty list, a type without bytes.
List_Head(Stack) == IF Len(Stack) = 0 THEN "unit" ELSE Stack[Len(Stack)]

\* Callable::call for Segment<(), T>, Segment<(A,), T> and Segment<(A, B), T>.
Segment_call(seg, Args, args, Stack, ptr, mode) ==
    CASE Len(Args) = 0 -> RawSegment_call0(seg, List_Head(Stack), ptr, mode)
      [] Len(Args) = 1 -> RawSegment_call1(seg, Args[1], args[1], List_Head(Stack), ptr, mode)
      [] Len(Args) = 2 -> RawSegment_call2(seg, Args[1], Args[2], args, List_Head(Stack), ptr, mode)

\* Segment::<Args>::new(): the Stack defaults to the reverse of the list of
\* Args, whose head is the last argument.
Segment_new(Args) ==
    [segment |-> RawSegment_new, Args |-> Args,
     Stack |-> List_Reverse(IntoList_Output(Args))]

\* DropTop::drop_top for the list Stack: for_each_type visits the list head
\* first, and DropHandler drops each head with its HEAD_PADDING.  Given as
\* the droppers in the order opposite to the one they run in.
drop_top(Stack) ==
    [i \in 1..Len(Stack) |->
        [ty |-> Stack[i], padding |-> HEAD_PADDING(SubSeq(Stack, 1, i)) # 0]]

\* Segment::op0
Segment_op0(s, R, op) ==
    [s EXCEPT !.segment = push_op0(s.segment, R, op), !.Stack = Append(s.Stack, R)]

\* Segment::op0r: the stored closure calls op and on Err runs
\* Stack::drop_top on the live stack.
Segment_op0r(s, R, op) ==
    [s EXCEPT !.segment = raw0(s.segment, R,
                               Closure(op.fn, op.c, op.msg, drop_top(s.Stack))),
              !.Stack = Append(s.Stack, R)]

\* Segment::op1
Segment_op1(s, R, op) ==
    [s EXCEPT !.segment = push_op1(s.segment, List_Head(s.Stack), R, op,
                                   HEAD_PADDING(s.Stack) # 0),
              !.Stack = Append(Front(s.Stack), R)]

\* Segment::op1r
Segment_op1r(s, R, op) ==
    [s EXCEPT !.segment = raw1(s.segment, List_Head(s.Stack), R,
                               Closure(op.fn, op.c, op.msg, drop_top(s.Stack)),
                               HEAD_PADDING(s.Stack) # 0),
              !.Stack = Append(Front(s.Stack), R)]

\* Segment::op2
Segment_op2(s, R, op) ==
    [s EXCEPT !.segment = push_op2(s.segment, List_Head(Front(s.Stack)),
                                   List_Head(s.Stack), R, op,
                                   HEAD_PADDING(Front(s.Stack)) # 0,
                                   HEAD_PADDING(s.Stack) # 0),
              !.Stack = Append(Front(Front(s.Stack)), R)]

\* ------------------------------------------------------------------- state
VARIABLES
    segment,        \* DynSegment.segment: the RawSegment under construction
    argument_ids,   \* DynSegment.argument_ids
    stack_ids,      \* DynSegment.stack_ids: the shadow stack of StackInfo
    stack_index,    \* DynSegment.stack_index
    event,          \* the last builder operation and whether it returned Ok
    lastCall,       \* the last call0/call1: its request, the builder before it, its result
    rs,             \* a RawStack driven directly through push and pop
    live,           \* the pushes on rs not yet popped, oldest first
    rsEvent,        \* the last operation on rs
    fragment_0,     \* the fragment built for the true branch: <<>> or <<DynSegment>>
    fragment_1,     \* the fragment built for the false branch
    joined,         \* the last join2: the builder before it, its fragments, its result
    converted,      \* the last Segment::try_from, and the call of the Segment it made
    typed,          \* a Segment built with its own methods, and its calls
    aligned,        \* the last align_index computed on its own
    sequence        \* a RawSegment seen as its stored closures and droppers

vars == <<segment, argument_ids, stack_ids, stack_index, event, lastCall,
          rs, live, rsEvent, fragment_0, fragment_1, joined, converted, typed,
          aligned, sequence>>

memVars == <<aligned, sequence>>

joinVars == <<fragment_0, fragment_1, joined>>

segVars == <<converted, typed, aligned, sequence>>

dynVars == <<segment, argument_ids, stack_ids, stack_index, event, lastCall,
             fragment_0, fragment_1, joined, converted, typed, aligned, sequence>>

rsVars == <<rs, live, rsEvent>>

Dyn == [segment |-> segment, argument_ids |-> argument_ids,
        stack_ids |-> stack_ids, stack_index |-> stack_index]

SetDyn(d) ==
    /\ segment' = d.segment
    /\ argument_ids' = d.argument_ids
    /\ stack_ids' = d.stack_ids
    /\ stack_index' = d.stack_index

Modes == {"debug", "release"}

\* Constants an op0 closure returns and values passed as call arguments.
Consts(T) == IF T = "unit" THEN {0} ELSE {2}

\* Argument tuples DynSegment::new is instantiated with.
RECURSIVE TypeSeqs(_)
TypeSeqs(n) ==
    IF n = 0 THEN {<<>>}
    ELSE TypeSeqs(n - 1) \cup {Append(L, T) : L \in TypeSeqs(n - 1), T \in Types}

SetDynInit(Args) ==
    LET d == DynSegment_new(Args) IN
    /\ segment = d.segment
    /\ argument_ids = d.argument_ids
    /\ stack_ids = d.stack_ids
    /\ stack_index = d.stack_index

NoEvent == [op |-> "new", T |-> <<>>, ok |-> TRUE]

NoReq == [op |-> "none", A |-> "unit", arg |-> 0, R |-> "unit", mode |-> "none"]

NoCall == [req |-> NoReq, pre |-> DynSegment_new(<<>>), res |-> NotRun,
           again |-> FALSE, first |-> 0, fresh |-> TRUE]

NoStackEvent == [op |-> "new", T |-> "unit", val |-> 0, pushed |-> 0,
                 padded |-> FALSE, before |-> 0, st |-> "ok"]

RsIdle == rs = with_base_alignment(1) /\ live = <<>> /\ rsEvent = NoStackEvent

NoJoin == [done |-> FALSE, ok |-> FALSE, pre |-> DynSegment_new(<<>>),
           fragment_0 |-> DynSegment_new(<<>>), fragment_1 |-> DynSegment_new(<<>>)]

NoConvert == [done |-> FALSE, ok |-> FALSE, Args |-> <<>>, Stack |-> <<>>,
              value |-> DynSegment_new(<<>>), segment |-> RawSegment_new,
              called |-> FALSE, args |-> <<>>, ptr |-> 0, mode |-> "none",
              res |-> NotRun]

NoAligned == [align |-> 1, index |-> 0, result |-> 0]

\* RawSegment::new() as far as its closures go: an empty RawSequence and no
\* dropper.  stored lists, closure by closure, the offset it was written
\* to; destroyed lists the offsets the droppers of a drop visited.  bytes
\* is the buffer of the RawSequence, read lists what the calls of next made
\* so far returned, and cursor is the position the last of them returned.
NoSequence == [len |-> 0, stored |-> <<>>, dropper |-> <<>>,
               alive |-> TRUE, destroyed |-> <<>>,
               bytes |-> <<>>, read |-> <<>>, cursor |-> 0]

\* No Segment is under construction: the empty Segment::<()>::new().
NoTyped == [s |-> Segment_new(<<>>), calls |-> 0, args |-> <<>>, ptr |-> 0,
            mode |-> "none", res |-> NotRun, first |-> NotRun]

JoinIdle ==
    /\ fragment_0 = <<>> /\ fragment_1 = <<>> /\ joined = NoJoin
    /\ converted = NoConvert
    /\ typed = NoTyped
    /\ aligned = NoAligned
    /\ sequence = NoSequence

Init ==
    /\ \E Args \in TypeSeqs(MaxArgs) : SetDynInit(Args)
    /\ event = NoEvent
    /\ lastCall = NoCall
    /\ RsIdle
    /\ JoinIdle

\* A program builds its segment, calls it, and may call it again when the
\* call returned Ok.
Fresh == lastCall.req.op = "none"

CanAppend == Len(segment.ops) < MaxOps /\ Fresh

CanCall == Fresh \/ lastCall.res.st = "ok"

\* The number of ops appended with op0r.
Fallible == Cardinality({i \in 1..Len(segment.ops) : segment.ops[i].kind = "raw0"})

CanAppendFallible == CanAppend /\ Fallible < MaxFallible

Appended(name, T, r) ==
    /\ SetDyn(r.dyn)
    /\ event' = [op |-> name, T |-> T, ok |-> r.ok]
    /\ lastCall' = NoCall
    /\ UNCHANGED rsVars
    /\ UNCHANGED joinVars
    /\ UNCHANGED segVars

Op0(R, c) ==
    /\ CanAppend
    /\ Appended("op0", <<>>, [ok |-> TRUE, dyn |-> op0(Dyn, R, Closure("const", c, 0, <<>>))])

Op0rOk(R, c) ==
    /\ CanAppendFallible
    /\ Appended("op0r", <<>>, [ok |-> TRUE, dyn |-> op0r(Dyn, R, Closure("ok", c, 0, <<>>))])

\* Each failing closure reports a message of its own: the number of the op.
Op0rErr(R) ==
    /\ CanAppendFallible
    /\ Appended("op0r", <<>>, [ok |-> TRUE, dyn |->
           op0r(Dyn, R, Closure("err", 0, Len(segment.ops) + 1, <<>>))])

Op1(T, R) ==
    /\ CanAppend
    /\ Appended("op1", <<T>>, op1(Dyn, T, R, Closure("inc", 0, 0, <<>>)))

Op2(T, U, R) ==
    /\ CanAppend
    /\ Appended("op2", <<T, U>>, op2(Dyn, T, U, R, Closure("lin2", 0, 0, <<>>)))

Op3(T, U, V, R) ==
    /\ CanAppend
    /\ Appended("op3", <<T, U, V>>, op3(Dyn, T, U, V, R, Closure("lin3", 0, 0, <<>>)))

\* A call is recorded with its request, the builder it was made on and its
\* result.  The build profile is kept when the run depended on it.
\* fresh tells that the call is the first one made on the segment; again
\* that it repeats a first call that returned Ok(first).
Called(name, A, arg, R, m, r) ==
    LET failed == r.res.st \in {"panic", "ub"}
        req == [op |-> name, A |-> A, arg |-> arg, R |-> R,
                mode |-> IF failed THEN m ELSE "any"]
        repeated == lastCall.fresh /\ lastCall.res.st = "ok" /\ lastCall.req = req
    IN  /\ CanCall
        /\ SetDyn(r.dyn)
        /\ event' = [op |-> name, T |-> <<>>, ok |-> r.res.st = "ok"]
        /\ lastCall' =
               [req |-> req,
                pre |-> Dyn,
                res |-> r.res,
                again |-> repeated,
                first |-> IF repeated THEN lastCall.res.val ELSE 0,
                fresh |-> Fresh]
        /\ UNCHANGED rsVars
        /\ UNCHANGED joinVars
        /\ UNCHANGED segVars

Call0(R) ==
    \E ptr \in HeapPtrs, m \in Modes :
        Called("call0", "unit", 0, R, m, call0(Dyn, R, ptr, m))

Call1(A, arg, R) ==
    \E ptr \in HeapPtrs, m \in Modes :
        Called("call1", A, arg, R, m, call1(Dyn, A, arg, R, ptr, m))

Next ==
    \/ \E R \in Types : \E c \in Consts(R) : Op0(R, c)
    \/ \E R \in Types : \E c \in Consts(R) : Op0rOk(R, c)
    \/ \E R \in Types : Op0rErr(R)
    \/ \E T, R \in Types : Op1(T, R)
    \/ \E T, U, R \in Types : Op2(T, U, R)
    \/ \E T, U, V, R \in Types : Op3(T, U, V, R)
    \/ \E R \in CallTypes : Call0(R)
    \/ \E A \in Types, R \in CallTypes : \E arg \in Consts(A) : Call1(A, arg, R)

Spec == Init /\ [][Next]_vars

\* ------------------------------------------------- RawStack driven directly
\* Types and values pushed on the stack under test: sizes 0, 1, 2 and 4,
\* values whose bytes look like padding.
StackTypes == {"unit", "u8", "u16", "u32"}

StackVals(T) == IF T = "unit" THEN {0} ELSE {0, 1}

BaseAlignments == {1, 4}


DynIdle ==
    /\ SetDynInit(<<>>)
    /\ event = NoEvent
    /\ lastCall = NoCall
    /\ JoinIdle

InitStack ==
    /\ DynIdle
    /\ \E b \in BaseAlignments : rs = with_base_alignment(b)
    /\ live = <<>>
    /\ rsEvent = NoStackEvent

\* stack.push(value), keeping the flag it returns and the length before it.
Push(T, value) ==
    /\ Len(live) < MaxPush
    /\ \E ptr \in HeapPtrs, m \in Modes :
         LET r == push(rs, T, value, ptr, m) IN
         /\ rs' = r.stack
         /\ live' = IF r.st = "ok"
                    THEN Append(live, [T |-> T, val |-> value, padded |-> r.padded,
                                       before |-> len(rs)])
                    ELSE live
         /\ rsEvent' = [op |-> "push", T |-> T, val |-> value, pushed |-> value,
                        padded |-> r.padded, before |-> len(rs), st |-> r.st]
    /\ UNCHANGED dynVars

\* stack.pop::<T>(padded) for the most recent push not yet popped.
Pop ==
    /\ Len(live) > 0
    /\ \E m \in Modes :
         LET top == live[Len(live)]
             r == pop(rs, top.T, top.padded, m)
         IN  /\ rs' = r.stack
             /\ live' = SubSeq(live, 1, Len(live) - 1)
             /\ rsEvent' = [op |-> "pop", T |-> top.T, val |-> r.val,
                            pushed |-> top.val, padded |-> top.padded,
                            before |-> top.before, st |-> r.st]
    /\ UNCHANGED dynVars

NextStack ==
    \/ \E T \in StackTypes : \E value \in StackVals(T) : Push(T, value)
    \/ Pop

SpecStack == InitStack /\ [][NextStack]_vars

\* ------------------------------------------- fragments joined by join2
\* The builder is driven as in Spec, over bool, u8 and u32.  A program
\* appends to the parent, makes and fills the first fragment, then the
\* second, joins them once, and may append to the parent again.
MaxFragmentOps == 2

JoinTypes == {"u8", "u32"}

JoinArgs == {<<>>, <<"bool">>, <<"u8">>}

Bools == {0, 1}

\* The constant the closures of a fragment return: 42 in the first, 2 in
\* the second.
FragmentConst(k) == IF k = 0 THEN 42 ELSE 2

Fragment(k) == IF k = 0 THEN fragment_0 ELSE fragment_1

SetFragment(k, f) ==
    /\ fragment_0' = IF k = 0 THEN f ELSE fragment_0
    /\ fragment_1' = IF k = 1 THEN f ELSE fragment_1

InitJoin ==
    /\ \E Args \in JoinArgs : SetDynInit(Args)
    /\ event = NoEvent
    /\ lastCall = NoCall
    /\ RsIdle
    /\ JoinIdle

Building == fragment_0 # <<>>

CanFragment(k) ==
    /\ Fresh /\ ~joined.done /\ Fragment(k) = <<>>
    /\ k = 1 => fragment_0 # <<>>

CanExtend(k) ==
    /\ Fresh /\ ~joined.done /\ Fragment(k) # <<>>
    /\ k = 0 => fragment_1 = <<>>
    /\ Fragment(k)[1].argument_ids = <<>>
    /\ Len(Fragment(k)[1].segment.ops) < MaxFragmentOps

CanAppendParent == CanAppend /\ ~Building

FragmentStep(k, f) ==
    /\ SetFragment(k, f)
    /\ UNCHANGED <<segment, argument_ids, stack_ids, stack_index, event, lastCall,
                   joined>>
    /\ UNCHANGED rsVars
    /\ UNCHANGED segVars

\* let fragment = parent.new_fragment();
NewFragment(k) ==
    /\ CanFragment(k)
    /\ FragmentStep(k, <<new_fragment(Dyn)>>)

\* A segment made with DynSegment::new::<(u8,)>() and handed to join2.
NewSegment(k) ==
    /\ CanFragment(k)
    /\ FragmentStep(k, <<DynSegment_new(<<"u8">>)>>)

\* fragment.op0(|| c)
FragmentOp0(k, R) ==
    /\ CanExtend(k)
    /\ FragmentStep(k, <<op0(Fragment(k)[1], R,
                             Closure("const", FragmentConst(k), 0, <<>>))>>)

\* fragment.op1(|x| x + 1), when the types match
FragmentOp1(k, T, R) ==
    /\ CanExtend(k)
    /\ LET r == op1(Fragment(k)[1], T, R, Closure("inc", 0, 0, <<>>)) IN
       /\ r.ok
       /\ FragmentStep(k, <<r.dyn>>)

\* fragment.op0r(|| Err(..)) as the first op of a fragment: the failing
\* closure reports the constant of its fragment.
FragmentOp0rErr(k, R) ==
    /\ CanExtend(k)
    /\ Len(Fragment(k)[1].segment.ops) = 0
    /\ FragmentStep(k, <<op0r(Fragment(k)[1], R,
                              Closure("err", 0, FragmentConst(k), <<>>))>>)

\* parent.op0(|| true) and parent.op0(|| false)
OpBool(c) ==
    /\ CanAppendParent
    /\ Appended("op0", <<>>, [ok |-> TRUE, dyn |-> op0(Dyn, "bool", Closure("const", c, 0, <<>>))])

\* parent.op2(|x: bool, y: bool| x && y)
OpAnd ==
    /\ CanAppendParent
    /\ Appended("op2", <<"bool", "bool">>,
                op2(Dyn, "bool", "bool", "bool", Closure("and", 0, 0, <<>>)))

\* parent.op1(|x| x + 1), when the types match
OpInc(T, R) ==
    /\ ~Building
    /\ op1(Dyn, T, R, Closure("inc", 0, 0, <<>>)).ok
    /\ Op1(T, R)

\* parent.op2(|x, y| ..) on the value beneath the bool and the result of
\* the join, when the types match
OpLin2(T, U, R) ==
    /\ joined.ok
    /\ op2(Dyn, T, U, R, Closure("lin2", 0, 0, <<>>)).ok
    /\ Op2(T, U, R)

\* The joined segment is called.
JoinCall0(R) == joined.ok /\ Call0(R)

JoinCall1(A, arg, R) == joined.ok /\ Call1(A, arg, R)

\* parent.join2(fragment_0, fragment_1): the fragments are moved into the
\* call.
Join2 ==
    /\ Fresh
    /\ ~joined.done
    /\ fragment_0 # <<>>
    /\ fragment_1 # <<>>
    /\ LET r == join2(Dyn, fragment_0[1], fragment_1[1]) IN
       /\ SetDyn(r.dyn)
       /\ event' = [op |-> "join2", T |-> <<"bool">>, ok |-> r.ok]
       /\ joined' = [done |-> TRUE, ok |-> r.ok, pre |-> Dyn,
                     fragment_0 |-> fragment_0[1], fragment_1 |-> fragment_1[1]]
    /\ fragment_0' = <<>>
    /\ fragment_1' = <<>>
    /\ UNCHANGED lastCall
    /\ UNCHANGED rsVars
    /\ UNCHANGED segVars

NextJoin ==
    \/ \E c \in Bools : OpBool(c)
    \/ OpAnd
    \/ \E T, R \in JoinTypes : OpInc(T, R)
    \/ \E k \in {0, 1} : NewFragment(k)
    \/ \E k \in {0, 1} : NewSegment(k)
    \/ \E k \in {0, 1} : \E R \in JoinTypes : FragmentOp0(k, R)
    \/ \E k \in {0, 1} : \E T, R \in JoinTypes : FragmentOp1(k, T, R)
    \/ \E k \in {0, 1} : \E R \in JoinTypes : FragmentOp0rErr(k, R)
    \/ Join2
    \/ \E U \in JoinTypes : OpLin2("u8", U, "u8")
    \/ \E R \in JoinTypes : JoinCall0(R)
    \/ \E A \in {"bool", "u8"}, R \in JoinTypes : \E arg \in Bools : JoinCall1(A, arg, R)

SpecJoin == InitJoin /\ [][NextJoin]_vars

\* ------------------------------------- a DynSegment made into a Segment
\* A program builds a DynSegment of up to MaxSegArgs arguments, hands it to
\* Segment::<Args, Stack>::try_from and calls the Segment it gets.
MaxSegOps == 2

MaxSegArgs == 2

InitSegment ==
    /\ \E Args \in TypeSeqs(MaxSegArgs) : SetDynInit(Args)
    /\ event = NoEvent
    /\ lastCall = NoCall
    /\ RsIdle
    /\ JoinIdle

CanBuild == ~converted.done /\ Len(segment.ops) < MaxSegOps

SegOp0(R, c) == CanBuild /\ Op0(R, c)

SegOp1(T, R) ==
    /\ CanBuild
    /\ op1(Dyn, T, R, Closure("inc", 0, 0, <<>>)).ok
    /\ Op1(T, R)

SegOp2(T, U, R) ==
    /\ CanBuild
    /\ op2(Dyn, T, U, R, Closure("lin2", 0, 0, <<>>)).ok
    /\ Op2(T, U, R)

\* Segment::<Args, Stack>::try_from(dyn_segment): the DynSegment is moved
\* into the call.
TryFrom(Args, Stack) ==
    /\ ~converted.done
    /\ LET r == try_from(Args, Stack, Dyn) IN
       /\ converted' = [NoConvert EXCEPT !.done = TRUE, !.ok = r.ok, !.Args = Args,
                                         !.Stack = Stack, !.value = Dyn,
                                         !.segment = r.segment]
       /\ event' = [op |-> "try_from", T |-> <<>>, ok |-> r.ok]
    /\ UNCHANGED <<segment, argument_ids, stack_ids, stack_index, lastCall, typed>>
    /\ UNCHANGED memVars
    /\ UNCHANGED rsVars
    /\ UNCHANGED joinVars

\* segment.call(args), for a Stack of at most one type.
SegmentCall ==
    /\ converted.ok
    /\ ~converted.called
    /\ Len(converted.Stack) <= 1
    /\ \E ptr \in HeapPtrs, m \in Modes :
         LET args == [i \in 1..Len(converted.Args) |-> 2]
             res == Segment_call(converted.segment, converted.Args, args,
                                 converted.Stack, ptr, m)
         IN  /\ converted' = [converted EXCEPT !.called = TRUE, !.args = args,
                                               !.ptr = ptr, !.mode = m, !.res = res]
             /\ event' = [op |-> "call", T |-> <<>>, ok |-> res.st = "ok"]
    /\ UNCHANGED <<segment, argument_ids, stack_ids, stack_index, lastCall, typed>>
    /\ UNCHANGED memVars
    /\ UNCHANGED rsVars
    /\ UNCHANGED joinVars

NextSegment ==
    \/ \E R \in Types : \E c \in Consts(R) : SegOp0(R, c)
    \/ \E T, R \in Types : SegOp1(T, R)
    \/ \E T, U, R \in Types : SegOp2(T, U, R)
    \/ \E Args, Stack \in TypeSeqs(MaxSegArgs) : TryFrom(Args, Stack)
    \/ SegmentCall

SpecSegment == InitSegment /\ [][NextSegment]_vars

\* ------------------------------------- a Segment built with its own methods
\* A program makes a Segment::<Args>::new(), chains up to MaxChainOps of
\* op0, op0r, op1, op1r and op2 and calls the Segment up to MaxCalls times
\* under one build profile.  Operand types are inferred from the Stack, so
\* every append type-checks.
MaxChainOps == 4

MaxChainArgs == 2

MaxCalls == 2

InitTyped ==
    /\ SetDynInit(<<>>)
    /\ event = NoEvent
    /\ lastCall = NoCall
    /\ RsIdle
    /\ fragment_0 = <<>> /\ fragment_1 = <<>> /\ joined = NoJoin
    /\ converted = NoConvert
    /\ aligned = NoAligned
    /\ sequence = NoSequence
    /\ \E Args \in TypeSeqs(MaxChainArgs) : typed = [NoTyped EXCEPT !.s = Segment_new(Args)]

CanChain == typed.calls = 0 /\ Len(typed.s.segment.ops) < MaxChainOps

\* The number of ops appended with op0r or op1r.
ChainFallible ==
    Cardinality({i \in 1..Len(typed.s.segment.ops) :
                    typed.s.segment.ops[i].kind \in {"raw0", "op1r"}})

CanChainFallible == CanChain /\ ChainFallible < MaxFallible

Chained(name, s) ==
    /\ typed' = [typed EXCEPT !.s = s]
    /\ event' = [op |-> name, T |-> <<>>, ok |-> TRUE]
    /\ UNCHANGED <<segment, argument_ids, stack_ids, stack_index, lastCall, converted>>
    /\ UNCHANGED memVars
    /\ UNCHANGED rsVars
    /\ UNCHANGED joinVars

\* segment.op0(|| c)
ChainOp0(R, c) ==
    /\ CanChain
    /\ Chained("Segment::op0", Segment_op0(typed.s, R, Closure("const", c, 0, <<>>)))

\* segment.op0r(|| Ok(c))
ChainOp0rOk(R, c) ==
    /\ CanChainFallible
    /\ Chained("Segment::op0r", Segment_op0r(typed.s, R, Closure("ok", c, 0, <<>>)))

\* segment.op0r(|| Err(msg)), the message being the number of the op
ChainOp0rErr(R) ==
    /\ CanChainFallible
    /\ Chained("Segment::op0r",
               Segment_op0r(typed.s, R,
                            Closure("err", 0, Len(typed.s.segment.ops) + 1, <<>>)))

\* segment.op1(|x| x + 1)
ChainOp1(R) ==
    /\ CanChain
    /\ Len(typed.s.Stack) >= 1
    /\ Chained("Segment::op1", Segment_op1(typed.s, R, Closure("inc", 0, 0, <<>>)))

\* segment.op1r(|x| Ok(x + 1))
ChainOp1rOk(R) ==
    /\ CanChainFallible
    /\ Len(typed.s.Stack) >= 1
    /\ Chained("Segment::op1r", Segment_op1r(typed.s, R, Closure("inc", 0, 0, <<>>)))

\* segment.op1r(|x| Err(msg))
ChainOp1rErr(R) ==
    /\ CanChainFallible
    /\ Len(typed.s.Stack) >= 1
    /\ Chained("Segment::op1r",
               Segment_op1r(typed.s, R,
                            Closure("err", 0, Len(typed.s.segment.ops) + 1, <<>>)))

\* segment.op2(|x, y| x + 2 * y)
ChainOp2(R) ==
    /\ CanChain
    /\ Len(typed.s.Stack) >= 2
    /\ Chained("Segment::op2", Segment_op2(typed.s, R, Closure("lin2", 0, 0, <<>>)))

\* segment.call(args): Callable is implemented for up to two arguments and
\* a Stack of at most one type.  A program goes on after Ok and Err.
ChainCall ==
    /\ typed.calls < MaxCalls
    /\ typed.calls > 0 => typed.res.st \in {"ok", "err"}
    /\ Len(typed.s.Stack) <= 1
    /\ Len(typed.s.Args) <= 2
    /\ \E ptr \in HeapPtrs, m \in Modes :
         LET args == [i \in 1..Len(typed.s.Args) |-> 2]
             res == Segment_call(typed.s.segment, typed.s.Args, args, typed.s.Stack, ptr, m)
         IN  /\ typed.calls > 0 => m = typed.mode
             /\ typed' = [typed EXCEPT !.calls = @ + 1, !.args = args, !.ptr = ptr,
                                       !.mode = m, !.res = res,
                                       !.first = IF typed.calls = 0 THEN res ELSE @]
             /\ event' = [op |-> "Segment::call", T |-> <<>>, ok |-> res.st = "ok"]
    /\ UNCHANGED <<segment, argument_ids, stack_ids, stack_index, lastCall, converted>>
    /\ UNCHANGED memVars
    /\ UNCHANGED rsVars
    /\ UNCHANGED joinVars

NextTyped ==
    \/ \E R \in Types : \E c \in Consts(R) : ChainOp0(R, c)
    \/ \E R \in Types : \E c \in Consts(R) : ChainOp0rOk(R, c)
    \/ \E R \in Types : ChainOp0rErr(R)
    \/ \E R \in Types : ChainOp1(R)
    \/ \E R \in Types : ChainOp1rOk(R)
    \/ \E R \in Types : ChainOp1rErr(R)
    \/ \E R \in Types : ChainOp2(R)
    \/ ChainCall

SpecTyped == InitTyped /\ [][NextTyped]_vars

\* --------------------------------------------- align_index on its own
\* align_index is applied to the power-of-two alignments up to
\* 2^MaxAlignLog and to the lengths up to MaxIndex, and to the largest
\* lengths whose aligned value is still a usize.
MaxAlignLog == 4

MaxIndex == 40

Alignments == {2 ^ k : k \in 0..MaxAlignLog}

Indexes(A) ==
    (0..MaxIndex) \cup ((2 ^ UsizeBits - A - 3)..(2 ^ UsizeBits - A))

\* The variables of the builders, the stacks and the Segments.
progVars == <<segment, argument_ids, stack_ids, stack_index, event, lastCall,
              rs, live, rsEvent, fragment_0, fragment_1, joined, converted, typed>>

InitAlign ==
    /\ SetDynInit(<<>>)
    /\ event = NoEvent
    /\ lastCall = NoCall
    /\ RsIdle
    /\ JoinIdle

\* let result = align_index(align, index);
AlignIndex(align, index) ==
    /\ aligned' = [align |-> align, index |-> index,
                   result |-> align_index_bits(align, index)]
    /\ UNCHANGED progVars
    /\ UNCHANGED sequence

NextAlign == \E align \in Alignments : \E index \in Indexes(align) : AlignIndex(align, index)

SpecAlign == InitAlign /\ [][NextAlign]_vars

\* ------------------------------------------- the closures of a RawSegment
\* The closures of a RawSegment on the bytes of its RawSequence.  A closure
\* type F is given by what it captures: nothing, a u8, a u16 or a u32.
MaxStored == 3

ClosureTypes == {"unit", "u8", "u16", "u32"}

\* RawSequence::push: the new length of the buffer and the offset the value
\* was written to.
RawSequence_push(length, F) ==
    LET start == align_index(align_of(F), length) IN
    [len |-> start + size_of(F), at |-> start]

\* drop_in_place returning the position before the value plus its size.
drop_in_place_unaligned(F, p) ==
    LET start == align_index(align_of(F), p) IN
    [at |-> start, next |-> p + size_of(F)]

\* RawSequence::drop_in_place: the offset of the value destroyed and the
\* position after it.
drop_in_place(F, p) ==
    LET start == align_index(align_of(F), p) IN
    [at |-> start, next |-> start + size_of(F)]

\* The buffer after RawSequence::push: set_len exposes the bytes between
\* the old length and the aligned offset unwritten (they read as 255
\* here, which no stored value holds), ptr::write puts the value behind
\* them.
RawSequence_write(bytes, F, value) ==
    LET written == RawSequence_push(Len(bytes), F) IN
    bytes \o [i \in 1..(written.at - Len(bytes)) |-> 255] \o Encode(F, value)

\* next reading the value at the position it is given.
next_unaligned(bytes, F, p) ==
    [val |-> Decode(SubSeq(bytes, p + 1, p + size_of(F))), next |-> p + size_of(F)]

\* RawSequence::next: the value at the aligned position and the position
\* after it.
next(bytes, F, p) ==
    LET start == align_index(align_of(F), p) IN
    [val |-> Decode(SubSeq(bytes, start + 1, start + size_of(F))),
     next |-> start + size_of(F)]

\* RawSegment::push_storage on the bytes: the value is stored and its
\* dropper registered.
push_storage_bytes(q, F, value) ==
    LET written == RawSequence_push(q.len, F) IN
    [q EXCEPT !.len = written.len,
              !.bytes = RawSequence_write(q.bytes, F, value),
              !.stored = Append(q.stored, [F |-> F, at |-> written.at, val |-> value]),
              !.dropper = Append(q.dropper, F)]

\* let mut p = 0; for e in &self.dropper { p = e(&mut self.storage, p); }
RECURSIVE RunDroppers(_, _, _)
RunDroppers(dropper, i, p) ==
    IF i > Len(dropper) THEN <<>>
    ELSE LET e == drop_in_place(dropper[i], p) IN
         <<[F |-> dropper[i], at |-> e.at]>> \o RunDroppers(dropper, i + 1, e.next)

\* The offsets of the stored closures, as the droppers report them.
Offsets(stored) == [i \in 1..Len(stored) |-> [F |-> stored[i].F, at |-> stored[i].at]]

\* <RawSegment as Drop>::drop
RawSegment_drop(q) ==
    [q EXCEPT !.alive = FALSE, !.destroyed = RunDroppers(q.dropper, 1, 0)]

InitStorage ==
    /\ SetDynInit(<<>>)
    /\ event = NoEvent
    /\ lastCall = NoCall
    /\ RsIdle
    /\ JoinIdle

\* An op is appended: each of raw0, push_op0 .. push_op3, raw1 and drop1
\* begins with self.push_storage(op).
PushStorage(F, value) ==
    /\ sequence.alive
    /\ Len(sequence.stored) < MaxStored
    /\ sequence' = push_storage_bytes(sequence, F, value)
    /\ UNCHANGED progVars
    /\ UNCHANGED aligned

\* What a closure type captures.
Captures(F) == IF F = "unit" THEN {0} ELSE {1, 2}

\* The next dispatcher of a call runs: let (f, r) = storage.next::<F>(p),
\* F being the type of the closure that was stored with the op, and p = r
\* for the next one.  The pass over the ops starts at p = 0.
NextClosure ==
    /\ sequence.alive
    /\ Len(sequence.read) < Len(sequence.stored)
    /\ LET F == sequence.stored[Len(sequence.read) + 1].F
           r == next(sequence.bytes, F, sequence.cursor)
       IN  sequence' = [sequence EXCEPT
               !.read = Append(sequence.read,
                               [F |-> F, from |-> sequence.cursor,
                                val |-> r.val, next |-> r.next]),
               !.cursor = r.next]
    /\ UNCHANGED progVars
    /\ UNCHANGED aligned

\* The RawSegment goes out of scope.
DropSegment ==
    /\ sequence.alive
    /\ sequence' = RawSegment_drop(sequence)
    /\ UNCHANGED progVars
    /\ UNCHANGED aligned

NextStorage ==
    \/ \E F \in ClosureTypes : \E value \in Captures(F) : PushStorage(F, value)
    \/ NextClosure
    \/ DropSegment

SpecStorage == InitStorage /\ [][NextStorage]_vars

\* ---------------------------------------------- a RawVec driven directly
\* A program makes a RawVec::with_base_alignment(b) and calls reserve,
\* set_len and truncate on it; rs is that vector.  Before a set_len that
\* grows the vector the program writes the new bytes, as the safety contract
\* of set_len asks.  The vector is grown while its capacity is at most
\* MaxCapacity, by at most MaxReserve bytes at a time.
MaxCapacity == 3

MaxReserve == 3

VecAlignments == {0, 1, 4}

\* What the program fills the bytes it exposes with.
Fills == {1, 2}

\* The lengths handed to set_len and truncate: up to one more than the
\* largest capacity a vector reaches here.
VecLens == 0..(2 * MaxCapacity + MaxReserve + 1)

\* truncate is also called with usize::MAX, which -1 stands for.
TruncateLens == VecLens \cup {-1}

\* RawVec::truncate called with any usize: start_offset + len is a usize
\* addition, which panics under overflow checks when it wraps.
RawVec_truncate(v, n, mode) ==
    IF n < 0 /\ v.start_offset + n >= 0 /\ mode = "debug"
    THEN [st |-> "panic", vec |-> v]
    ELSE [st |-> "ok", vec |-> truncate(v, n)]

InitVec ==
    /\ DynIdle
    /\ \E b \in VecAlignments : rs = with_base_alignment(b)
    /\ live = <<>>
    /\ rsEvent = NoStackEvent

VecStep(name, n, r) ==
    /\ rs' = r.vec
    /\ rsEvent' = [op |-> name, n |-> n, st |-> r.st, pre |-> rs]
    /\ UNCHANGED live
    /\ UNCHANGED dynVars

\* vec.reserve(n)
VecReserve(n) ==
    /\ capacity(rs) <= MaxCapacity
    /\ \E ptr \in HeapPtrs, m \in Modes : VecStep("reserve", n, reserve(rs, n, ptr, m))

\* What set_len(n) returned as r, the bytes it exposes holding fill.
Written(v, n, fill, r) ==
    IF r.st # "ok" THEN r
    ELSE [r EXCEPT !.vec.data =
              [i \in 1..n |-> IF i <= Len(v.data) THEN v.data[i] ELSE fill]]

\* The bytes len()..n are written through as_mut_ptr, then vec.set_len(n).
VecSetLen(n, fill) ==
    /\ n <= capacity(rs) + 1
    /\ VecStep("set_len", n, Written(rs, n, fill, set_len(rs, n)))

\* vec.truncate(n)
VecTruncate(n) ==
    /\ n <= len(rs) + 1
    /\ \E m \in Modes : VecStep("truncate", n, RawVec_truncate(rs, n, m))

NextVec ==
    \/ \E n \in 0..MaxReserve : VecReserve(n)
    \/ \E n \in VecLens : \E fill \in Fills : VecSetLen(n, fill)
    \/ \E n \in TruncateLens : VecTruncate(n)

SpecVec == InitVec /\ [][NextVec]_vars

\* -------------------------------------------------- reference evaluation
\* The ops of a segment evaluated on a stack of typed values: an op of
\* arity N takes the top N values, deepest first, and leaves its closure's
\* result; a closure returning Err stops the evaluation with the values then
\* on the stack.
Value(T, v) == [ty |-> T, val |-> v]

AbstractStart(values) ==
    [st |-> "run", stack |-> values, err |-> 0, invoked |-> <<>>, at |-> 0]

AbstractOp(d, f, i, a) ==
    LET n == Len(d.T)
        depth == Len(a.stack)
    IN  IF n > depth THEN [a EXCEPT !.st = "stuck", !.at = i]
        ELSE LET operands == [k \in 1..n |-> a.stack[depth - n + k].val]
                 called == [a EXCEPT !.invoked =
                                Append(a.invoked, [op |-> i, args |-> operands])]
             IN  IF f.fn = "err"
                 THEN [called EXCEPT !.st = "err", !.err = f.msg, !.at = i]
                 ELSE [called EXCEPT !.stack =
                          Append(SubSeq(a.stack, 1, depth - n),
                                 Value(d.R, IF f.fn = "ok" THEN Wrap(d.R, f.c)
                                            ELSE Apply(f, operands, d.R)))]

RECURSIVE AbstractFragment(_, _, _, _)

\* The op join2 appends takes the bool on top and evaluates the ops of one
\* fragment on the values beneath it: the first fragment for true, the
\* second for false.
AbstractStep(d, f, i, a) ==
    IF d.kind # "raw0_" THEN AbstractOp(d, f, i, a)
    ELSE LET depth == Len(a.stack) IN
         IF depth = 0 \/ a.stack[depth].ty # "bool" THEN [a EXCEPT !.st = "stuck", !.at = i]
         ELSE LET conditional == a.stack[depth].val
                  called == [a EXCEPT
                      !.stack = SubSeq(a.stack, 1, depth - 1),
                      !.invoked = Append(a.invoked, [op |-> i, args |-> <<conditional>>])]
              IN  IF conditional # 0
                  THEN AbstractFragment(f.c.raw_segment_0, 1, FragmentTag, called)
                  ELSE AbstractFragment(f.c.raw_segment_1, 1, 2 * FragmentTag, called)

AbstractFragment(seg, j, tag, a) ==
    IF a.st # "run" \/ j > Len(seg.ops) THEN a
    ELSE AbstractFragment(seg, j + 1, tag,
                          AbstractOp(seg.ops[j], seg.storage[j], tag + j, a))

RECURSIVE AbstractRun(_, _, _)
AbstractRun(seg, i, a) ==
    IF a.st # "run" \/ i > Len(seg.ops) THEN a
    ELSE AbstractRun(seg, i + 1, AbstractStep(seg.ops[i], seg.storage[i], i, a))

AbstractEval(seg, values) ==
    LET a == AbstractRun(seg, 1, AbstractStart(values)) IN
    IF a.st = "run" THEN [a EXCEPT !.st = IF Len(a.stack) > 0 THEN "ok" ELSE "stuck"]
    ELSE a

\* The last call, when the raw segment ran, and its reference evaluation.
Ran == lastCall.res.st # "prelude"

CallArgs ==
    IF lastCall.req.op = "call1" THEN <<Value(lastCall.req.A, lastCall.req.arg)>> ELSE <<>>

Reference == AbstractEval(lastCall.pre.segment, CallArgs)

\* -------------------------------------------------------------- properties

\* C1: a call whose prelude passes returns exactly the value the reference
\* evaluation of the ops leaves on top of its stack.
C1_CallRefinesReference ==
    (Ran /\ lastCall.fresh /\ Reference.st = "ok") =>
        /\ lastCall.res.st = "ok"
        /\ lastCall.res.val = Reference.stack[Len(Reference.stack)].val

\* C2: every closure is invoked with the operands of the reference
\* evaluation in parameter order: the top value last, the value beneath it
\* before.
C2_OperandOrder ==
    (Ran /\ lastCall.fresh) => \A k \in 1..Len(lastCall.res.invoked) :
               /\ k <= Len(Reference.invoked)
               /\ lastCall.res.invoked[k] = Reference.invoked[k]

\* C3: when an op0r closure returns Err the call returns with the run-time
\* stack empty and the values live before the failing op dropped once each,
\* last pushed first.
C3_DropOnError ==
    (Ran /\ lastCall.fresh /\ Reference.st = "err") =>
        /\ lastCall.res.st = "err"
        /\ len(lastCall.res.stack) = 0
        /\ lastCall.res.dropped = Reverse(Reference.stack)

\* The shadow stack ids is at least Len(L) deep and its top entries, deepest
\* first, have the TypeIds L.
TopMatches(ids, L) ==
    /\ Len(L) <= Len(ids)
    /\ \A i \in 1..Len(L) : ids[Len(ids) - Len(L) + i].stack_id = L[i]

\* C4: op1/op2/op3 return Ok exactly when the shadow stack is at least N
\* deep and its top N TypeIds, deepest first, are the operand types asked
\* for; otherwise they return an error.
C4_AppendTypeCheck ==
    [][event'.op \in {"op1", "op2", "op3"} =>
           (event'.ok <=> TopMatches(stack_ids, event'.T))]_vars

C4_Witness ==
    /\ event.op = "op2" /\ ~event.ok
    /\ Len(stack_ids) >= 2
    /\ stack_ids[Len(stack_ids)].stack_id = event.T[2]

\* C5: an op1/op2/op3 that returns an error leaves the shadow stack,
\* stack_index, the op list and the closure storage as they were.
C5_FailedAppendFrame ==
    [][(event'.op \in {"op1", "op2", "op3"} /\ ~event'.ok) => Dyn' = Dyn]_vars

C5_Witness ==
    /\ event.op = "op2" /\ ~event.ok
    /\ Len(segment.ops) >= 1

\* C6: a call that succeeded on a freshly built segment, made again on the
\* same segment with the same arguments, returns the same value.
C6_CallRepeatable ==
    lastCall.again => (lastCall.res.st = "ok" /\ lastCall.res.val = lastCall.first)

\* The segment d declares exactly the arguments the call req supplies and
\* its shadow stack is one entry of the result type asked for.
Accepts(d, req) ==
    /\ Len(d.argument_ids) = (IF req.op = "call1" THEN 1 ELSE 0)
    /\ req.op = "call1" => d.argument_ids[1] = req.A
    /\ Len(d.stack_ids) = 1
    /\ d.stack_ids[1].stack_id = req.R

\* C7: call0/call1 run the raw segment exactly when the declared arguments
\* are the k supplied ones, type for type, and the shadow stack is one entry
\* of type R; a rejected call returns an error and invokes no closure.
C7_CallPrelude ==
    event.op \in {"call0", "call1"} =>
        /\ Ran <=> Accepts(lastCall.pre, lastCall.req)
        /\ ~Ran => (~event.ok /\ lastCall.res.invoked = <<>>)

C7_Witness ==
    /\ event.op = "call0" /\ ~Ran
    /\ Len(lastCall.pre.stack_ids) = 2
    /\ lastCall.pre.stack_ids[2].stack_id = lastCall.req.R

\* C8: call0::<()>() on new::<()>() with no op appended returns Ok(()).
C8_EmptyCall ==
    (/\ event.op = "call0"
     /\ lastCall.req.R = "unit"
     /\ lastCall.pre = DynSegment_new(<<>>)) => event.ok

\* The first op of seg whose closure returns Err, 0 when there is none.
FirstErr(seg) ==
    LET failing == {i \in 1..Len(seg.ops) : seg.storage[i].fn = "err"} IN
    IF failing = {} THEN 0 ELSE CHOOSE i \in failing : \A j \in failing : i <= j

\* C9: a call invokes the closures in append order, each at most once; when
\* one returns Err no later closure is invoked and the call returns that
\* error with its message.
C9_DispatchOrder ==
    (Ran /\ lastCall.fresh) =>
        LET seg == lastCall.pre.segment
            invoked == lastCall.res.invoked
            e == FirstErr(seg)
        IN  /\ Len(invoked) <= Len(seg.ops)
            /\ \A k \in 1..Len(invoked) : invoked[k].op = k
            /\ e > 0 => Len(invoked) <= e
            /\ (e > 0 /\ Len(invoked) = e) =>
                   (lastCall.res.st = "err" /\ lastCall.res.err = seg.storage[e].msg)

\* C10: pushes on a RawStack followed by pops in reverse order, each with
\* the type and the flag of its push, bring the length back to what it was
\* before the matching push, and to the starting length at the end.
C10_PushPopLength ==
    /\ rsEvent.op = "pop" => (rsEvent.st = "ok" /\ len(rs) = rsEvent.before)
    /\ (rsEvent.op = "pop" /\ live = <<>>) => len(rs) = 0

C10_Witness ==
    /\ rsEvent.op = "pop" /\ rsEvent.st = "ok"
    /\ rsEvent.padded
    /\ Len(live) >= 1

\* C11: popped in reverse order with the type and the flag of its push,
\* every value comes back as it was pushed, whatever bytes lie beneath it.
C11_PopReturnsPushed ==
    rsEvent.op = "pop" => (rsEvent.st = "ok" /\ rsEvent.val = rsEvent.pushed)

C11_Witness ==
    /\ rsEvent.op = "pop" /\ rsEvent.padded
    /\ rsEvent.val = 1
    /\ Len(live) >= 1
    /\ live[Len(live)].val = 0

\* C12: every value pushed on the run-time stack during a call, argument
\* or op result, is written to an address that is a multiple of its
\* alignment.
C12_AlignedWrites ==
    (Ran /\ lastCall.fresh) => lastCall.res.aligned

\* The run-time stack after pushing one value of each declared argument
\* type, first argument deepest, as RawSegment::call1 / call2 do.
RECURSIVE PreLoad(_, _, _, _, _)
PreLoad(x, ids, i, ptr, mode) ==
    IF x.st # "run" \/ i > Len(ids) THEN x
    ELSE LET a == push(x.stack, ids[i], 2, ptr, mode) IN
         PreLoad(IF a.st # "ok" THEN [x EXCEPT !.st = a.st]
                 ELSE [x EXCEPT !.stack = a.stack,
                                !.flags = Append(x.flags, a.padded)],
                 ids, i + 1, ptr, mode)

\* The run of the ops appended so far on the pre-loaded arguments, before
\* any result is popped.
RunAppended(d, ptr, mode) ==
    RunOps(d.segment, 1,
           PreLoad(Exec(with_base_alignment(d.segment.base_alignment)),
                   d.argument_ids, 1, ptr, mode),
           ptr, mode)

AppendedOk == event.op \in {"op0", "op0r", "op1", "op2", "op3"} /\ event.ok

\* C13: after successful appends stack_index is the length the run-time
\* stack has once exactly those ops have run on the pre-loaded arguments.
C13_StackIndex ==
    AppendedOk =>
        \A ptr \in HeapPtrs, mode \in Modes :
            LET x == RunAppended(Dyn, ptr, mode) IN
            x.st = "run" => stack_index = len(x.stack)

\* C14: the padded flag recorded for a shadow-stack entry is the boolean
\* RawStack::push returns when the value is pushed at run time.  Every entry
\* is the top one when its op is appended, so the top entry is compared
\* after each successful append.
C14_PaddedFlags ==
    AppendedOk =>
        \A ptr \in HeapPtrs, mode \in Modes :
            LET x == RunAppended(Dyn, ptr, mode) IN
            x.st = "run" =>
                stack_ids[Len(stack_ids)].padded = x.flags[Len(x.flags)]

\* C15: when a call's prelude passes and its ops all succeed, the run-time
\* stack holds the result alone: the final pop(false) takes size_of::<R>()
\* bytes from offset 0 and leaves the stack empty.
C15_SingleResult ==
    (Ran /\ lastCall.fresh /\ lastCall.res.st = "ok") => len(lastCall.res.stack) = 0

\* C16: the dispatcher join2 appends pops the bool and runs exactly one
\* fragment on the live stack, the first for true and the second for false:
\* the closures invoked and the value the call returns are those of the
\* reference evaluation, where the joined op yields the result of the chosen
\* fragment.
C16_JoinRunsOneFragment ==
    (Ran /\ lastCall.fresh /\ joined.ok /\ Reference.st = "ok") =>
        /\ lastCall.res.st = "ok"
        /\ lastCall.res.val = Reference.stack[Len(Reference.stack)].val
        /\ lastCall.res.invoked = Reference.invoked

\* The example of the claim: root `|| true, || false, &&`, fragments
\* `|| 42` and `|| 2` of a 4-byte type, joined and called.
C16_Example ==
    /\ Ran /\ lastCall.fresh /\ joined.ok
    /\ lastCall.req.op = "call0" /\ lastCall.req.R = "u32"
    /\ Len(lastCall.pre.segment.ops) = 4
    /\ lastCall.pre.segment.ops[3].kind = "op2"
    /\ lastCall.pre.segment.storage[1].c = 1
    /\ lastCall.pre.segment.storage[2].c = 0
    /\ Len(joined.fragment_0.segment.ops) = 1
    /\ Len(joined.fragment_1.segment.ops) = 1
    /\ lastCall.res.st = "ok" /\ lastCall.res.val = 2

\* The types of a shadow stack, deepest first.
StackTypeIds(ids) == [i \in 1..Len(ids) |-> ids[i].stack_id]

\* The conditions join2 requires: the parent's shadow top is bool, no
\* fragment declares arguments, each fragment's shadow stack holds one entry,
\* and the two entries have the same type.
JoinAccepts(d, f0, f1) ==
    /\ Len(d.stack_ids) >= 1
    /\ d.stack_ids[Len(d.stack_ids)].stack_id = "bool"
    /\ Len(f0.argument_ids) = 0
    /\ Len(f1.argument_ids) = 0
    /\ Len(f0.stack_ids) = 1
    /\ Len(f1.stack_ids) = 1
    /\ f0.stack_ids[1].stack_id = f1.stack_ids[1].stack_id

\* C17: join2 returns Ok exactly when the parent's shadow top is bool, no
\* fragment declares arguments, each fragment's shadow stack holds exactly
\* one entry and the two result types are equal; after Ok the parent's
\* shadow stack is the one before with the bool replaced by one entry of the
\* common result type.
C17_JoinChecks ==
    event.op = "join2" =>
        /\ joined.ok <=> JoinAccepts(joined.pre, joined.fragment_0, joined.fragment_1)
        /\ joined.ok =>
               StackTypeIds(stack_ids) =
                   Append(Front(StackTypeIds(joined.pre.stack_ids)),
                          joined.fragment_0.stack_ids[1].stack_id)

\* A successful join2 on a parent that holds a value beneath the bool, of
\* fragments built with two ops each.
C17_Witness ==
    /\ event.op = "join2" /\ joined.ok
    /\ Len(stack_ids) = 2
    /\ Len(joined.fragment_0.segment.ops) = 2
    /\ joined.fragment_0.stack_ids[1].stack_id = "u32"

\* C18: when join2 returns an error because of the shape of a fragment
\* (arguments declared, not exactly one result, result types that differ),
\* the parent is as before the call: the bool still on top of its shadow
\* stack, stack_index unchanged, no op appended.
C18_JoinErrorFrame ==
    (/\ event.op = "join2"
     /\ ~joined.ok
     /\ Len(joined.pre.stack_ids) >= 1
     /\ joined.pre.stack_ids[Len(joined.pre.stack_ids)].stack_id = "bool") =>
        /\ stack_ids = joined.pre.stack_ids
        /\ stack_index = joined.pre.stack_index
        /\ segment = joined.pre.segment

\* C19: Segment::<Args, Stack>::try_from returns Ok exactly when the
\* argument types the DynSegment declares are those of Args in argument
\* order and the types of its shadow stack, deepest first, are those of
\* Stack, whose head is the top of the stack; also with two arguments or
\* two stack entries of distinct types.
C19_TryFromChecks ==
    converted.done =>
        (converted.ok <=>
            /\ converted.value.argument_ids = converted.Args
            /\ StackTypeIds(converted.value.stack_ids) = converted.Stack)

\* The DynSegment called directly: call0 without arguments, call1 with one.
DirectCall(value, Args, args, R, ptr, mode) ==
    IF Len(Args) = 0 THEN call0(value, R, ptr, mode).res
    ELSE call1(value, Args[1], args[1], R, ptr, mode).res

\* C20: for a built DynSegment and arguments, try_from followed by the call
\* of the Segment returns what the call of the DynSegment itself returns,
\* with the same argument and result types, on the same buffer address and
\* build profile: the same value when one returns Ok, an error when the
\* other returns an error.
C20_RoundTrip ==
    (converted.done /\ Len(converted.Args) <= 1 /\ Len(converted.Stack) <= 1) =>
        /\ converted.called =>
               LET direct == DirectCall(converted.value, converted.Args, converted.args,
                                        List_Head(converted.Stack), converted.ptr,
                                        converted.mode)
               IN  /\ (direct.st = "ok") <=> (converted.res.st = "ok")
                   /\ direct.st = "ok" => direct.val = converted.res.val
        /\ ~converted.ok =>
               \A ptr \in HeapPtrs, mode \in Modes :
                   DirectCall(converted.value, converted.Args,
                              [i \in 1..Len(converted.Args) |-> 2],
                              List_Head(converted.Stack), ptr, mode).st # "ok"

\* The values a call of the Segment pushes for its arguments, and the
\* reference evaluation of its ops on them.
ChainArgs == [i \in 1..Len(typed.s.Args) |-> Value(typed.s.Args[i], 2)]

ChainReference == AbstractEval(typed.s.segment, ChainArgs)

\* The ops chained so far run on the pre-loaded arguments, no result popped.
RunChained(ptr, mode) ==
    RunOps(typed.s.segment, 1,
           PreLoad(Exec(with_base_alignment(typed.s.segment.base_alignment)),
                   typed.s.Args, 1, ptr, mode),
           ptr, mode)

ChainAppended == event.op \in {"Segment::op0", "Segment::op1", "Segment::op2"}

\* C21: in a chain of op0/op1/op2 on a typed Segment the padding flag the
\* Stack list gives for its head (HEAD_PADDING # 0) is the boolean
\* RawStack::push returned when that value was pushed at run time, and a
\* call returns the value the reference evaluation of the ops leaves.
C21_StaticPadding ==
    /\ ChainAppended =>
           \A ptr \in HeapPtrs, mode \in Modes :
               LET x == RunChained(ptr, mode) IN
               x.st = "run" =>
                   (HEAD_PADDING(typed.s.Stack) # 0) = x.flags[Len(x.flags)]
    /\ (/\ typed.calls = 1
        /\ Len(typed.s.segment.ops) >= 1
        /\ ChainFallible = 0
        /\ ChainReference.st = "ok") =>
           /\ typed.res.st = "ok"
           /\ typed.res.val = ChainReference.stack[Len(ChainReference.stack)].val

\* The values the reference evaluation holds beneath the operands of the op
\* that failed: the operands themselves were moved into the closure.
ChainLiveAtError ==
    LET stack == ChainReference.stack
        failed == typed.s.segment.ops[ChainReference.at]
    IN  SubSeq(stack, 1, Len(stack) - Len(failed.T))

\* C22: when an op0r or op1r closure of a typed Segment returns Err, the
\* call returns that error with the run-time stack empty and the values
\* then live on it dropped once each, last pushed first; the operand op1r
\* popped and gave to the closure is not taken from the stack again.
C22_TypedDropOnError ==
    (typed.calls = 1 /\ ChainReference.st = "err") =>
        /\ typed.res.st = "err"
        /\ typed.res.err = typed.s.segment.storage[ChainReference.at].msg
        /\ len(typed.res.stack) = 0
        /\ typed.res.dropped = Reverse(ChainLiveAtError)

\* C23: for a power-of-two alignment A and a length L whose aligned value
\* is a usize, align_index(A, L) is at least L, a multiple of A and less
\* than A above L: the least multiple of A not below L, and L itself when L
\* is aligned.  It is the value the stack model computes arithmetically.
C23_AlignIndex ==
    /\ aligned.result >= aligned.index
    /\ aligned.result % aligned.align = 0
    /\ aligned.result - aligned.index < aligned.align
    /\ aligned.index % aligned.align = 0 => aligned.result = aligned.index
    /\ aligned.result = align_index(aligned.align, aligned.index)

\* align_index(16, 17) = 32
C23_Witness == aligned = [align |-> 16, index |-> 17, result |-> 32]

\* C24: a RawSegment holds one dropper per stored closure, and when it is
\* dropped the droppers destroy the closures in push order, once each, the
\* cursor visiting exactly the offsets the closures were stored at.
C24_DropOrder ==
    /\ Len(sequence.dropper) = Len(sequence.stored)
    /\ ~sequence.alive => sequence.destroyed = Offsets(sequence.stored)

\* A dropped segment of three closures, the last two stored after padding.
C24_Witness ==
    /\ ~sequence.alive
    /\ Len(sequence.destroyed) = 3
    /\ sequence.stored[2].at = 2
    /\ sequence.stored[3].at = 4
    /\ sequence.stored[3].F = "u8"

\* The least multiple of A that is not below L.
AlignUp(L, A) == ((L + A - 1) \div A) * A

\* C31: the closures of a RawSegment are read back with next from position
\* 0 in the order they were stored: each read returns the value that was
\* stored, the position it returns is not below the one it was given and is
\* the aligned position plus the size of the closure, and once every closure
\* was read the position is the length of the storage.
C31_CursorReads ==
    /\ Len(sequence.read) <= Len(sequence.stored)
    /\ \A i \in 1..Len(sequence.read) :
          LET e == sequence.read[i] IN
          /\ e.F = sequence.stored[i].F
          /\ e.val = sequence.stored[i].val
          /\ e.from = (IF i = 1 THEN 0 ELSE sequence.read[i - 1].next)
          /\ e.next >= e.from
          /\ e.next = AlignUp(e.from, align_of(e.F)) + size_of(e.F)
    /\ Len(sequence.read) = Len(sequence.stored) =>
          sequence.cursor = sequence.len /\ sequence.len = Len(sequence.bytes)

\* Three closures read back, the last two stored behind padding.
C31_Witness ==
    /\ Len(sequence.read) = 3
    /\ sequence.read[1].F = "u8"
    /\ sequence.read[2] = [F |-> "u16", from |-> 1, val |-> 2, next |-> 4]
    /\ sequence.read[3] = [F |-> "u32", from |-> 4, val |-> 1, next |-> 8]
    /\ sequence.stored[2].at = 2
    /\ sequence.cursor = 8

\* C25: a call of a typed Segment leaves the ops, the closure storage and
\* base_alignment of its RawSegment as they were, and a call repeated with
\* the same arguments returns what the first call returned.
C25_CallLeavesSegment ==
    [][(event'.op = "Segment::call" /\ typed'.calls = typed.calls + 1) =>
          /\ typed'.s = typed.s
          /\ typed.calls >= 1 =>
                /\ typed'.res.st = typed.first.st
                /\ typed'.res.val = typed.first.val
                /\ typed'.res.err = typed.first.err]_vars

\* C26: RawStack::push of a value of type T at length L returns true
\* exactly when L is not a multiple of T's alignment; the new length is
\* align_up(L, A) + size_of T, the bytes from L up to align_up(L, A) are
\* 0x01 followed by 0x00 only, the bytes below L are kept, and without
\* padding the length grows by size_of T and the value follows at L.
C26_PushPadding ==
    [][(rsEvent'.op = "push" /\ Len(live') = Len(live) + 1) =>
          LET T == rsEvent'.T
              L == len(rs)
              up == AlignUp(L, align_of(T))
          IN  /\ rsEvent'.st = "ok"
              /\ rsEvent'.before = L
              /\ rsEvent'.padded <=> (L % align_of(T) # 0)
              /\ len(rs') = up + size_of(T)
              /\ SubSeq(rs'.data, 1, L) = SubSeq(rs.data, 1, L)
              /\ rsEvent'.padded =>
                    /\ rs'.data[L + 1] = 1
                    /\ \A i \in (L + 2)..up : rs'.data[i] = 0
              /\ ~rsEvent'.padded => len(rs') = L + size_of(T)
              /\ SubSeq(rs'.data, up + 1, len(rs')) = Encode(T, rsEvent'.val)]_vars

\* A u32 pushed at length 1: three bytes of padding.
C26_Witness ==
    /\ rsEvent.op = "push"
    /\ rsEvent.T = "u32"
    /\ rsEvent.before = 1
    /\ rsEvent.padded
    /\ SubSeq(rs.data, 2, 4) = <<1, 0, 0>>

\* C27: a call0 or call1 rejected by its prelude leaves the shadow stack and
\* the raw segment of the DynSegment as they were before the call.
C27_PreludeFrame ==
    (event.op \in {"call0", "call1"} /\ lastCall.res.st = "prelude") =>
        /\ stack_ids = lastCall.pre.stack_ids
        /\ segment = lastCall.pre.segment

\* C28: a DynSegment just made by new::<Args>() has one shadow-stack entry
\* per declared argument, first argument deepest, whose padded flag is what
\* RawStack::push returns for that argument, and a stack_index equal to the
\* length of the run-time stack after the arguments were pushed left to
\* right.
C28_NewShadowStack ==
    event.op = "new" =>
        LET x == PreLoad(Exec(with_base_alignment(1)), argument_ids, 1, 16, "debug") IN
        /\ x.st = "run"
        /\ Len(stack_ids) = Len(argument_ids)
        /\ \A i \in 1..Len(stack_ids) :
              /\ stack_ids[i].stack_id = argument_ids[i]
              /\ stack_ids[i].padded = x.flags[i]
        /\ stack_index = len(x.stack)

\* The run of fragment frag inside the call of the parent joined.pre: the
\* parent's ops run on the pre-loaded arguments, the dispatcher join2
\* appended pops the bool, and the fragment's ops run on the same stack.
RunFragment(frag, ptr, mode) ==
    LET conditional == PopConditional(segment.storage[Len(segment.storage)],
                                      Len(segment.ops),
                                      RunAppended(joined.pre, ptr, mode), mode)
    IN  [popped |-> conditional.st = "run",
         ran |-> call0_stack(frag.segment, 1, FragmentTag,
                             [conditional EXCEPT !.p = 1], ptr, mode)]

\* C29: after a successful join2, the padded flag each fragment recorded for
\* its result, and the flag of the entry promoted to the parent's shadow
\* stack, are the boolean RawStack::push returns for that result when the
\* fragment runs inside the parent's call, after the bool was popped.
C29_FragmentPadding ==
    (event.op = "join2" /\ joined.ok) =>
        \A ptr \in HeapPtrs, mode \in Modes :
            \A frag \in {joined.fragment_0, joined.fragment_1} :
                LET r == RunFragment(frag, ptr, mode) IN
                r.popped =>
                    /\ r.ran.st = "run"
                    /\ frag.stack_ids[1].padded = r.ran.flags[Len(r.ran.flags)]
                    /\ stack_ids[Len(stack_ids)].padded = r.ran.flags[Len(r.ran.flags)]

\* The reference evaluation of the last call stopped at a failing closure of
\* a fragment.
FragmentFailed == Reference.st = "err" /\ Reference.at > FragmentTag

\* C30: when a fallible op of a joined fragment returns Err, the call
\* returns that error with the run-time stack empty, and the values that
\* were live, those of the parent beneath the fragment included, are dropped
\* once each, last pushed first.
C30_FragmentDropOnError ==
    (Ran /\ lastCall.fresh /\ joined.ok /\ FragmentFailed) =>
        /\ lastCall.res.st = "err"
        /\ lastCall.res.err = Reference.err
        /\ len(lastCall.res.stack) = 0
        /\ lastCall.res.dropped = Reverse(Reference.stack)

\* A sentinel lies directly beneath the value of type T on top of stack s:
\* the bytes under the value end in a 1 followed by zeros only.
SentinelBeneath(s, T) ==
    LET p == len(s) - size_of(T)
        z == IF p >= 0 THEN TrailingZeros(SubSeq(s.data, 1, p)) ELSE 0
    IN  p > z /\ s.data[p - z] = 1

\* The segment before its last op was appended, as far as running it goes.
BeforeLast(d) ==
    [d EXCEPT !.segment.ops = Front(d.segment.ops),
              !.segment.storage = Front(d.segment.storage)]

\* C34: a type of alignment 1 is never recorded as padded, neither by
\* push_type on the shadow stack nor in the flags a dispatcher pops its
\* operands with; and when the dispatcher just appended pops its top operand
\* with the sentinel scan, a sentinel lies directly beneath that operand on
\* the run-time stack.
C34_SentinelScan ==
    AppendedOk =>
        /\ \A i \in 1..Len(stack_ids) :
              align_of(stack_ids[i].stack_id) = 1 => ~stack_ids[i].padded
        /\ \A i \in 1..Len(segment.ops) : \A j \in 1..Len(segment.ops[i].T) :
              align_of(segment.ops[i].T[j]) = 1 => ~segment.ops[i].PADDING[j]
        /\ LET last == segment.ops[Len(segment.ops)]
               n == Len(last.T)
           IN  (n > 0 /\ last.PADDING[n]) =>
                   \A ptr \in HeapPtrs, mode \in Modes :
                       LET x == RunAppended(BeforeLast(Dyn), ptr, mode) IN
                       x.st = "run" => SentinelBeneath(x.stack, last.T[n])

\* The largest alignment among the result types of the ops of seg that were
\* appended with raw0, push_op0 .. push_op3 or raw1; 0 when there is none.
ResultAlign(seg) ==
    LET A == {align_of(seg.ops[i].R) :
                 i \in {j \in 1..Len(seg.ops) : seg.ops[j].kind # "raw0_"}}
    IN  IF A = {} THEN 0 ELSE CHOOSE a \in A : \A b \in A : b <= a

\* The base alignment of seg is the one its own appends account for.
OwnAlignment(seg) == base_alignment(seg) = ResultAlign(seg)

\* The base alignments of the builder and its fragments after a step.
AlignmentsKept ==
    /\ ~joined.ok => OwnAlignment(segment)
    /\ \A k \in {0, 1} : Fragment(k) # <<>> => OwnAlignment(Fragment(k)[1].segment)
    /\ joined.ok =>
          /\ base_alignment(segment) >= ResultAlign(segment)
          /\ base_alignment(segment) >= base_alignment(joined.pre.segment)
          /\ base_alignment(segment) >= base_alignment(joined.fragment_0.segment)
          /\ base_alignment(segment) >= base_alignment(joined.fragment_1.segment)

C33_Reserve ==
    [][(rsEvent'.op = "reserve" /\ rsEvent'.st = "ok") =>
          LET n == rsEvent'.n
              needed == len(rs) + n
          IN  /\ capacity(rs') >= needed
              /\ len(rs') = len(rs)
              /\ SubSeq(rs'.data, 1, len(rs)) = SubSeq(rs.data, 1, len(rs))
              /\ needed > capacity(rs) =>
                    /\ as_mut_ptr(rs') % rs'.base_alignment = 0
                    /\ capacity(rs') >= Max(needed, 2 * capacity(rs))
              /\ needed <= capacity(rs) => rs' = rs]_vars

\* C35: after every reserve, set_len and truncate that returns, len() is
\* within 0..capacity() and start_offset is below max(base_alignment, 1);
\* truncate(n) returns for every n, leaves the length alone when n is at
\* least len() and sets it to n otherwise, and never changes start_offset
\* or cuts the buffer below it.
C35_VecBounds ==
    [][/\ rsEvent'.st = "ok" =>
             /\ 0 <= len(rs') /\ len(rs') <= capacity(rs')
             /\ rs'.start_offset < Max(rs'.base_alignment, 1)
       /\ rsEvent'.op = "truncate" =>
             LET n == rsEvent'.n IN
             /\ rsEvent'.st = "ok"
             /\ len(rs') = (IF n < 0 \/ n >= len(rs) THEN len(rs) ELSE n)
             /\ rs'.start_offset = rs.start_offset
             /\ rs'.vlen >= rs'.start_offset]_vars

====
